---- MODULE Spec2Model ----
(***************************************************************************)
(* A model of the spatial query and statistics engine of                   *)
(* src/2025/project_c/app.js: geometry indexing (geometryBounds), point    *)
(* location (pointInRing, pointInPolygon, pointWithinBounds), flood zone   *)
(* classification (loadFloodZones, findFloodZone), nearest shelter         *)
(* resolution (loadShelters, findNearestShelter, haversine) and the        *)
(* percentile ranker (createPercentileRanker).                             *)
(*                                                                         *)
(* Numbers.  Coordinates are integers.  pointInRing divides, so the model  *)
(* compares the two sides of its inequality after multiplying by the       *)
(* divisor: for integer coordinates of this size the double computed by    *)
(* the JavaScript is on the same side of the integer x as the exact        *)
(* quotient (an inexact quotient is at least 1/|divisor| away from every   *)
(* integer).  A percentile rank is a rational, kept as numerator and       *)
(* denominator.                                                            *)
(***************************************************************************)
EXTENDS Integers, Sequences, FiniteSets, TLC

VARIABLES
    feature,         \* point location: the loaded feature a point is located in
    point,           \* point location: the last point located
    located,         \* point location: the outcome of the last location
    zoneFeatureMap,  \* zoneFeatureMap (app.js 1018), as findFloodZone reads it:
                     \* zone id -> zoneFeatureMap.get(id) || []
    zoneLoadPos,     \* loadFloodZones: the index in floodZonesConfig of the next fetch
    zoneClick,       \* the point of the last findFloodZone call
    zoneResult,      \* the result of the last findFloodZone call
    shelterFeatures, \* dataStore.shelterFeatures (app.js 1021)
    shelterLoad,     \* loadShelters: "pending", "done" or "failed"
    shelterQuery,    \* the arguments of the last findNearestShelter call
    shelterResult,   \* the result of the last findNearestShelter call
    rankValues,      \* the distribution createPercentileRanker was called with
    ranker,          \* the ranker it returned
    rankQuery,       \* the value the ranker was last called with
    rankResult,      \* what it returned
    valuePerSqMeter, \* loadParcelValues: the valuePerSqMeter of the parcels mapped so
                     \* far (app.js 1582-1624), in tenths
    breaksBuilt,     \* loadParcelValues: app.js 1652-1670 has run
    parcelStats,     \* parcelStats (app.js 1661, 1668)
    parcelBreaks,    \* parcelBreaks (app.js 1663, 1669)
    insuranceInput,  \* renderInsuranceInfo: the zone result and the parcel result it
                     \* was last called with
    insuranceResult, \* renderInsuranceInfo: the estimate it showed, or the placeholder
    geojson,         \* normalizeFeatures: the feature collection it was called with
    normalized,      \* normalizeFeatures: what it returned, or that it threw
    layerLoad,       \* a loader's try block around it: the layer it stored, or that
                     \* the catch ran
    parcelCollection, \* dataStore.parcelCollection (app.js 1023)
    parcelBounds,    \* parcelBounds (app.js 1034)
    parcelCentroid,  \* parcelCentroid (app.js 1035)
    parcelLoad,      \* loadParcelValues: "pending", "loaded" or "failed", and the
                     \* file it fetched
    parcelQuery,     \* the last parcel query: a click or a name search
    parcelFound,     \* and what it found
    zoneLoadFailed,  \* loadFloodZones: the layers whose turn ended in the catch
    initStatus,      \* init: "running", or "done" once Promise.all has settled
    selection,       \* the last click or search handled: what its queries returned
    asked,           \* and the layers that were available to it
    currentLanguage, \* currentLanguage (app.js 229)
    currentSelection, \* currentSelection (app.js 230): null, or the place and the
                     \* parcel selected
    zoneCalls,       \* the calls of findFloodZone for the current selection, each with
                     \* what it was given and what it returned: the call that
                     \* selected it, and the last call that rendered it again
    mappedProperties, \* loadParcelValues: the attributes of the parcels mapped so far
    mappedMetrics,   \* and the metrics parcels.map gave each (app.js 1584-1602)
    metricDistributions, \* metricDistributions (app.js 1576-1580)
    slideDeck,       \* the SlideDeck: binLayers, currentBin, the layers of dataLayer
                     \* and whether the map has dataLayer
    deckBuilds,      \* the calls of constructBinnedLayers so far
    deckCall,        \* the last call on the deck, and the deck before it
    pageState,       \* index.js: "start", "fetching" (init waits for the file), "ready"
                     \* (the scroll listener is registered) or "failed"
    binSlides,       \* binSlides.length: the bin slides the document has (index.js 40)
    geojsonData,     \* geojsonData: the OBJECTIDs of the Point features of the file
    lastFocusId,     \* lastFocusId (index.js 68)
    focusEnabled,    \* focusEnabled (index.js 69)
    moveEndHandlers, \* the focus slides whose map.once("moveend") handler waits
    scrollEvent,     \* the last scroll event: what was in view, the fly-to it issued
                     \* and the focus slide of the fly-to before it
    lastFlight,      \* the focus slide of the last fly-to a scroll event issued
    followUp,        \* whether the last step was a moveend handler issuing flyTo
    selectionMarker  \* selectionMarker (app.js 1027): whether it is on the map, and where

pipVars == <<feature, point, located>>

zoneVars == <<zoneFeatureMap, zoneLoadPos, zoneClick, zoneResult>>

shelterVars == <<shelterFeatures, shelterLoad, shelterQuery, shelterResult>>

rankVars == <<rankValues, ranker, rankQuery, rankResult>>

vars == <<feature, point, located, zoneFeatureMap, zoneLoadPos, zoneClick, zoneResult,
          shelterFeatures, shelterLoad, shelterQuery, shelterResult,
          rankValues, ranker, rankQuery, rankResult,
          valuePerSqMeter, breaksBuilt, parcelStats, parcelBreaks,
          insuranceInput, insuranceResult,
          geojson, normalized, layerLoad,
          parcelCollection, parcelBounds, parcelCentroid, parcelLoad,
          parcelQuery, parcelFound,
          zoneLoadFailed, initStatus, selection, asked,
          currentLanguage, currentSelection, zoneCalls,
          mappedProperties, mappedMetrics, metricDistributions,
          slideDeck, deckBuilds, deckCall,
          pageState, binSlides, geojsonData, lastFocusId, focusEnabled, moveEndHandlers, scrollEvent, lastFlight, followUp,
          selectionMarker>>

breakVars == <<valuePerSqMeter, breaksBuilt, parcelStats, parcelBreaks>>

insuranceVars == <<insuranceInput, insuranceResult>>

normalizeVars == <<geojson, normalized, layerLoad>>

parcelVars == <<parcelCollection, parcelBounds, parcelCentroid, parcelLoad,
               parcelQuery, parcelFound>>

appVars == <<zoneLoadFailed, initStatus, selection, asked>>

languageVars == <<currentLanguage, currentSelection, zoneCalls>>

metricVars == <<mappedProperties, mappedMetrics, metricDistributions>>

deckVars == <<slideDeck, deckBuilds, deckCall>>

scrollVars == <<pageState, binSlides, geojsonData, lastFocusId, focusEnabled, moveEndHandlers, scrollEvent, lastFlight, followUp>>

markerVars == <<selectionMarker>>

\* The variables of the domains below the percentile ranker.
laterVars == <<breakVars, insuranceVars, normalizeVars, parcelVars, appVars, languageVars, metricVars, deckVars, scrollVars, markerVars>>

earlierVars == <<pipVars, zoneVars, shelterVars, rankVars>>

\* What the actions of one domain leave alone.
notBreakVars == <<earlierVars, insuranceVars, normalizeVars, parcelVars, appVars, languageVars, metricVars, deckVars, scrollVars, markerVars>>

notInsuranceVars == <<earlierVars, breakVars, normalizeVars, parcelVars, appVars, languageVars, metricVars, deckVars, scrollVars, markerVars>>

notNormalizeVars == <<earlierVars, breakVars, insuranceVars, parcelVars, appVars, languageVars, metricVars, deckVars, scrollVars, markerVars>>

notParcelVars == <<earlierVars, breakVars, insuranceVars, normalizeVars, appVars, languageVars, metricVars, deckVars, scrollVars, markerVars>>

notAppVars == <<earlierVars, breakVars, insuranceVars, normalizeVars, parcelVars, languageVars, metricVars, deckVars, scrollVars, markerVars>>

notLanguageVars == <<earlierVars, breakVars, insuranceVars, normalizeVars, parcelVars, appVars, metricVars, deckVars, scrollVars, markerVars>>

notMetricVars == <<earlierVars, breakVars, insuranceVars, normalizeVars, parcelVars, appVars, languageVars, deckVars, scrollVars, markerVars>>

notDeckVars == <<earlierVars, breakVars, insuranceVars, normalizeVars, parcelVars, appVars, languageVars, metricVars, scrollVars, markerVars>>

notScrollVars == <<earlierVars, breakVars, insuranceVars, normalizeVars, parcelVars, appVars, languageVars, metricVars, deckVars, markerVars>>

notMarkerVars == <<earlierVars, breakVars, insuranceVars, normalizeVars, parcelVars, appVars, languageVars, metricVars, deckVars, scrollVars>>

(***************************************************************************)
(* Bounds of the model.                                                    *)
(***************************************************************************)
MaxHoles == 1

MaxPolys == 2

\* The number of features of all the zone layers together.
MaxZoneFeatures == 2

\* The number of features of the shelter file.
MaxShelters == 2

\* The length of a distribution, and its largest value.
MaxLen == 4

MaxValue == 3

\* The parcels of a load whose values per square metre are classified.
MaxParcelValues == 5

\* The features of a fetched file.
MaxFileFeatures == 2

\* The parcels of a parcel file.
MaxParcels == 2

MaxMetricParcels == 2

(***************************************************************************)
(* Generic helpers.                                                        *)
(***************************************************************************)
Lon(c) == c[1]

Lat(c) == c[2]

\* All sequences over S of length 0..n.
SeqUpTo(S, n) == UNION {[1..k -> S] : k \in 0..n}

\* array.flatMap(x => x): the concatenation of a sequence of sequences.
RECURSIVE Concat(_)
Concat(ss) == IF ss = <<>> THEN <<>> ELSE Head(ss) \o Concat(Tail(ss))

(***************************************************************************)
(* pointWithinBounds(point, bounds), app.js 886-894.  A bounds value is    *)
(* null (ok = FALSE) or the array [minLon, minLat, maxLon, maxLat].        *)
(***************************************************************************)
NullBounds == [ok |-> FALSE, minLon |-> 0, minLat |-> 0, maxLon |-> 0, maxLat |-> 0]

pointWithinBounds(p, bounds) ==
    /\ bounds.ok
    /\ Lon(p) >= bounds.minLon
    /\ Lon(p) <= bounds.maxLon
    /\ Lat(p) >= bounds.minLat
    /\ Lat(p) <= bounds.maxLat

(***************************************************************************)
(* geometryBounds(geometry), app.js 131-175.  walk visits every coordinate *)
(* pair of the nested coordinates array; update keeps the running minimum  *)
(* and maximum of each axis; the result is null when no pair was seen.     *)
(***************************************************************************)
walk(geometry) ==
    IF geometry.type = "Polygon"
    THEN Concat(geometry.coordinates)
    ELSE Concat([i \in 1..Len(geometry.coordinates) |-> Concat(geometry.coordinates[i])])

RECURSIVE update(_, _)
update(coords, acc) ==
    IF coords = <<>> THEN acc
    ELSE LET c == Head(coords)
             next == IF ~acc.ok
                     THEN [ok |-> TRUE, minLon |-> Lon(c), minLat |-> Lat(c),
                           maxLon |-> Lon(c), maxLat |-> Lat(c)]
                     ELSE [ok |-> TRUE,
                           minLon |-> IF Lon(c) < acc.minLon THEN Lon(c) ELSE acc.minLon,
                           minLat |-> IF Lat(c) < acc.minLat THEN Lat(c) ELSE acc.minLat,
                           maxLon |-> IF Lon(c) > acc.maxLon THEN Lon(c) ELSE acc.maxLon,
                           maxLat |-> IF Lat(c) > acc.maxLat THEN Lat(c) ELSE acc.maxLat]
         IN update(Tail(coords), next)

\* A plausible slip: the bounding box of the first ring's first two vertices only.
geometryBoundsFirstEdge(geometry) ==
    update(SubSeq(walk(geometry), 1, 2), NullBounds)

geometryBounds(geometry) ==
    update(walk(geometry), NullBounds)

(***************************************************************************)
(* pointInRing(point, ring), app.js 2336-2349: ray casting.  Edge i runs   *)
(* from vertex j (the previous vertex, the last one for i = first) to      *)
(* vertex i; inside flips on every edge the ray to the east crosses.       *)
(***************************************************************************)
intersect(p, ring, i) ==
    LET j  == IF i = 1 THEN Len(ring) ELSE i - 1
        x  == Lon(p)
        y  == Lat(p)
        xi == Lon(ring[i])
        yi == Lat(ring[i])
        xj == Lon(ring[j])
        yj == Lat(ring[j])
        num == (xj - xi) * (y - yi)
        den == yj - yi
    IN  /\ (yi > y) # (yj > y)
        \* x < num / den + xi
        /\ IF den > 0 THEN (x - xi) * den < num ELSE (x - xi) * den > num

RECURSIVE pointInRingFrom(_, _, _, _)
pointInRingFrom(p, ring, i, inside) ==
    IF i > Len(ring) THEN inside
    ELSE pointInRingFrom(p, ring, i + 1,
                         IF intersect(p, ring, i) THEN ~inside ELSE inside)

pointInRing(p, ring) == pointInRingFrom(p, ring, 1, FALSE)

(***************************************************************************)
(* pointInPolygon(point, feature), app.js 2351-2372.                       *)
(***************************************************************************)
\* for (let i = 1; i < rings.length; i++) if (pointInRing(point, rings[i])) ...
inAnyHole(p, rings) == \E i \in 2..Len(rings) : pointInRing(p, rings[i])

pointInSinglePolygon(p, rings) ==
    /\ pointInRing(p, rings[1])
    /\ ~inAnyHole(p, rings)

\* A plausible slip: the holes are never looked at.
pointInPolygonNoHoles(p, f) ==
    LET geom == f.geometry
    IN  IF geom.type = "Polygon" THEN pointInRing(p, geom.coordinates[1])
        ELSE IF geom.type = "MultiPolygon"
        THEN \E k \in 1..Len(geom.coordinates) : pointInRing(p, geom.coordinates[k][1])
        ELSE FALSE

\* A plausible slip: inHole is declared outside the loop over the polygons, so a
\* hole of an earlier polygon excludes the point from every later polygon.
RECURSIVE multiSharedHole(_, _, _, _)
multiSharedHole(p, polys, k, inHole) ==
    IF k > Len(polys) THEN FALSE
    ELSE IF ~pointInRing(p, polys[k][1]) THEN multiSharedHole(p, polys, k + 1, inHole)
    ELSE LET h == inHole \/ inAnyHole(p, polys[k])
         IN  IF ~h THEN TRUE ELSE multiSharedHole(p, polys, k + 1, h)

pointInPolygonSharedHole(p, f) ==
    LET geom == f.geometry
    IN  IF geom.type = "Polygon" THEN pointInSinglePolygon(p, geom.coordinates)
        ELSE IF geom.type = "MultiPolygon" THEN multiSharedHole(p, geom.coordinates, 1, FALSE)
        ELSE FALSE

pointInPolygon(p, f) ==
    LET geom == f.geometry
    IN  IF geom.type = "Polygon" THEN pointInSinglePolygon(p, geom.coordinates)
        ELSE IF geom.type = "MultiPolygon"
        THEN \E k \in 1..Len(geom.coordinates) :
                 pointInSinglePolygon(p, geom.coordinates[k])
        ELSE FALSE

(***************************************************************************)
(* The containment test of findFloodZone (app.js 1757-1761) and of         *)
(* findParcelAtPoint (app.js 1822-1826): a feature whose __bounds is set   *)
(* and does not hold the point is skipped, and the others are decided by   *)
(* pointInPolygon.                                                         *)
(***************************************************************************)
featureContains(p, f) ==
    IF f.bounds.ok /\ ~pointWithinBounds(p, f.bounds) THEN FALSE
    ELSE pointInPolygon(p, f)

(***************************************************************************)
(* The feature built by the loaders (app.js 1470-1476, 1609-1623): the     *)
(* normalised geometry and __bounds = geometryBounds(geometry).            *)
(***************************************************************************)
makeFeature(geometry) ==
    [geometry |-> geometry, bounds |-> geometryBounds(geometry)]

Polygon(rings) == [type |-> "Polygon", coordinates |-> rings]

MultiPolygon(polys) == [type |-> "MultiPolygon", coordinates |-> polys]

(***************************************************************************)
(* The flood zone layers.  floodZonesConfig (app.js 972-1003) is the order *)
(* loadFloodZones fetches them in, zonePriority (app.js 1006) the order    *)
(* findFloodZone walks them in.                                            *)
(***************************************************************************)
\* A plausible slip: the layers fetched from the least severe zone up.
floodZonesConfigReversed == <<"X", "A", "AO", "AE", "VE">>

floodZonesConfig == <<"VE", "AE", "AO", "A", "X">>

\* A plausible slip: the least severe zone first.
zonePriorityReversed == <<"X", "A", "AO", "AE", "VE">>

zonePriority == <<"VE", "AE", "AO", "A", "X">>

ZoneIds == {floodZonesConfig[k] : k \in 1..Len(floodZonesConfig)}

\* zoneFeatureMap.get(zoneId) || []: the features of a layer, none for a layer
\* that has no entry in the map.
layerFeatures(map, zoneId) == map[zoneId]

NoZone == [found |-> FALSE, zoneId |-> "none", index |-> 0]

ZoneStart ==
    /\ zoneFeatureMap = [z \in ZoneIds |-> <<>>]
    /\ zoneLoadPos = 1
    /\ zoneClick = <<0, 0>>
    /\ zoneResult = NoZone

(***************************************************************************)
(* findFloodZone(point), app.js 1753-1771.  The feature returned is named  *)
(* by its layer and its index in the layer.                                *)
(***************************************************************************)
RECURSIVE scanFeatures(_, _, _, _)
scanFeatures(p, zoneId, features, i) ==
    IF i > Len(features) THEN NoZone
    ELSE IF featureContains(p, features[i])
    THEN [found |-> TRUE, zoneId |-> zoneId, index |-> i]
    ELSE scanFeatures(p, zoneId, features, i + 1)

RECURSIVE scanZones(_, _, _)
scanZones(p, map, k) ==
    IF k > Len(zonePriority) THEN NoZone
    ELSE LET r == scanFeatures(p, zonePriority[k], layerFeatures(map, zonePriority[k]), 1)
         IN  IF r.found THEN r ELSE scanZones(p, map, k + 1)

findFloodZone(p, map) == scanZones(p, map, 1)

(***************************************************************************)
(* Strings are sequences of characters, so that trim, toUpperCase and      *)
(* includes are computed and not assumed.                                  *)
(***************************************************************************)
LowerCase == <<"a", "b", "c", "d", "e", "f", "g", "h", "i", "j", "k", "l", "m",
               "n", "o", "p", "q", "r", "s", "t", "u", "v", "w", "x", "y", "z">>

UpperCase == <<"A", "B", "C", "D", "E", "F", "G", "H", "I", "J", "K", "L", "M",
               "N", "O", "P", "Q", "R", "S", "T", "U", "V", "W", "X", "Y", "Z">>

\* The upper case of each lower case letter.
upperOf == [c \in {LowerCase[k] : k \in 1..Len(LowerCase)} |->
               UpperCase[CHOOSE k \in 1..Len(LowerCase) : LowerCase[k] = c]]

\* String.prototype.toUpperCase: every other character is kept.
toUpperCase(str) ==
    [i \in 1..Len(str) |-> IF str[i] \in DOMAIN upperOf THEN upperOf[str[i]] ELSE str[i]]

\* String.prototype.trim
RECURSIVE trimStart(_)
trimStart(str) ==
    IF str # <<>> /\ Head(str) = " " THEN trimStart(Tail(str)) ELSE str

RECURSIVE trimEnd(_)
trimEnd(str) ==
    IF str # <<>> /\ str[Len(str)] = " " THEN trimEnd(SubSeq(str, 1, Len(str) - 1)) ELSE str

trim(str) == trimEnd(trimStart(str))

\* String.prototype.includes
includes(str, token) ==
    \E i \in 0..(Len(str) - Len(token)) : SubSeq(str, i + 1, i + Len(token)) = token

\* app.js 883-884
WATER_ISLAND_TOKEN == <<"W", "A", "T", "E", "R", " ", "I", "S", "L", "A", "N", "D">>

WATER_ISLAND_SHELTER_NAME ==
    <<"W", "a", "t", "e", "r", " ", "I", "s", "l", "a", "n", "d", " ",
      "S", "t", "a", "t", "i", "o", "n">>

(***************************************************************************)
(* haversine(lon1, lat1, lon2, lat2), app.js 2374-2384, in metres (the     *)
(* code's kilometres times 1000, rounded).  The model has no sine, so the  *)
(* formula of the code, with R = 6371, is tabulated for longitudes and     *)
(* latitudes of 0, 1 and 2 degrees: HaversineTable[dLon + 1][lat1 + 1]     *)
(* [lat2 + 1].  Distinct distances of the table differ by 16 m or more,    *)
(* so rounding keeps their order.                                          *)
(***************************************************************************)
HaversineTable ==
    <<<<<<0, 111195, 222390>>, <<111195, 0, 111195>>, <<222390, 111195, 0>>>>,
      <<<<111195, 157249, 248629>>, <<157249, 111178, 157225>>, <<248629, 157225, 111127>>>>,
      <<<<222390, 248629, 314475>>, <<248629, 222356, 248569>>, <<314475, 248569, 222254>>>>>>

\* A JavaScript number: a finite value, or NaN.
Num(v) == [nan |-> FALSE, v |-> v]

NaN == [nan |-> TRUE, v |-> 0]

\* a < b, which is false when either side is NaN
lessThan(a, b) == ~a.nan /\ ~b.nan /\ a.v < b.v

haversine(lon1, lat1, lon2, lat2) ==
    LET dLon == IF lon2 >= lon1 THEN lon2 - lon1 ELSE lon1 - lon2
    IN  Num(HaversineTable[dLon + 1][lat1 + 1][lat2 + 1])

(***************************************************************************)
(* findNearestShelter(point, parcelFeature), app.js 1773-1814.  A shelter  *)
(* is [name, geometry]; the feature returned is named by its index in      *)
(* dataStore.shelterFeatures.  Of parcelFeature the function reads         *)
(* properties.Tax_Legal_ only: [isString, text].                           *)
(***************************************************************************)
NoShelter == [found |-> FALSE, index |-> 0, distanceKm |-> Num(0)]

\* typeof legalDescription === "string" &&
\* legalDescription.toUpperCase().includes(WATER_ISLAND_TOKEN)
isWaterIslandParcel(legal) ==
    legal.isString /\ includes(toUpperCase(legal.text), WATER_ISLAND_TOKEN)

\* name.toUpperCase() === WATER_ISLAND_SHELTER_NAME.toUpperCase(), name trimmed
isWaterIslandShelter(shelter) ==
    toUpperCase(trim(shelter.name)) = toUpperCase(WATER_ISLAND_SHELTER_NAME)

\* const [lon, lat] = feature.geometry.coordinates;
\* haversine(point[0], point[1], lon, lat)
\* The coordinates of a Point are the pair lon, lat.  Those of a MultiPoint are
\* an array of pairs, so lon and lat are bound to pairs (lat to undefined when
\* there is one pair) and the subtractions of haversine yield NaN.
shelterDistance(p, shelter) ==
    IF shelter.geometry.type = "Point"
    THEN haversine(Lon(p), Lat(p),
                   Lon(shelter.geometry.coordinates), Lat(shelter.geometry.coordinates))
    ELSE NaN

\* A plausible slip: the comparison the wrong way round, which keeps the farthest.
closerReversed(distanceKm, closest) ==
    ~closest.found \/ lessThan(closest.distanceKm, distanceKm)

\* !closest || distanceKm < closest.distanceKm
closer(distanceKm, closest) == ~closest.found \/ lessThan(distanceKm, closest.distanceKm)

\* A plausible slip: the restricted shelter is not kept out of the scan.
skipFromScanNever(isName, isParcel) == FALSE

\* if (!isWaterIslandParcel) continue; inside the name test
skipFromScan(isName, isParcel) == isName /\ ~isParcel

\* A plausible slip: the override is left out, and the closest shelter returned.
overrideAppliesNever(isParcel, waterIslandShelter) == FALSE

\* if (isWaterIslandParcel && waterIslandShelter)
overrideApplies(isParcel, waterIslandShelter) == isParcel /\ waterIslandShelter.found

\* The loop: acc is [waterIslandShelter, closest].
RECURSIVE scanShelters(_, _, _, _, _)
scanShelters(p, isParcel, shelters, i, acc) ==
    IF i > Len(shelters) THEN acc
    ELSE LET isName == isWaterIslandShelter(shelters[i])
             wis == IF isName THEN [found |-> TRUE, index |-> i, distanceKm |-> Num(0)]
                    ELSE acc.waterIslandShelter
             d == shelterDistance(p, shelters[i])
             closest == IF skipFromScan(isName, isParcel) THEN acc.closest
                        ELSE IF closer(d, acc.closest)
                        THEN [found |-> TRUE, index |-> i, distanceKm |-> d]
                        ELSE acc.closest
         IN  scanShelters(p, isParcel, shelters, i + 1,
                          [waterIslandShelter |-> wis, closest |-> closest])

findNearestShelter(p, legal, shelters) ==
    IF Len(shelters) = 0 THEN NoShelter
    ELSE LET isParcel == isWaterIslandParcel(legal)
             acc == scanShelters(p, isParcel, shelters, 1,
                                 [waterIslandShelter |-> NoShelter, closest |-> NoShelter])
             wis == acc.waterIslandShelter
             override == [found |-> TRUE, index |-> wis.index,
                          distanceKm |-> shelterDistance(p, shelters[wis.index])]
         IN  IF overrideApplies(isParcel, wis) THEN override
             ELSE IF ~acc.closest.found /\ isParcel /\ wis.found THEN override
             ELSE IF ~acc.closest.found /\ wis.found /\ ~isParcel THEN NoShelter
             ELSE acc.closest

NoLegal == [isString |-> FALSE, text |-> <<>>]

ShelterStart ==
    /\ shelterFeatures = <<>>
    /\ shelterLoad = "pending"
    /\ shelterQuery = [point |-> <<0, 0>>, legal |-> NoLegal]
    /\ shelterResult = NoShelter

(***************************************************************************)
(* createPercentileRanker(values), app.js 907-951.  A value is a number,   *)
(* finite (Num) or not (NaN); a rank is null or the rational n / d.  The   *)
(* ranker returned is the closure over sorted: [kind, sorted], kind naming *)
(* which of the four returned functions it is.                             *)
(***************************************************************************)
\* Number.isFinite
isFinite(x) == ~x.nan

NullRank == [isNull |-> TRUE, n |-> 0, d |-> 1]

Rank(n, d) == [isNull |-> FALSE, n |-> n, d |-> d]

\* values.filter(v => Number.isFinite(v)), as the finite values themselves
RECURSIVE filterFinite(_)
filterFinite(values) ==
    IF values = <<>> THEN <<>>
    ELSE IF isFinite(Head(values)) THEN <<Head(values).v>> \o filterFinite(Tail(values))
    ELSE filterFinite(Tail(values))

\* .sort((a, b) => a - b): ascending, by insertion
RECURSIVE insertSorted(_, _)
insertSorted(x, sortedSeq) ==
    IF sortedSeq = <<>> THEN <<x>>
    ELSE IF x <= Head(sortedSeq) THEN <<x>> \o sortedSeq
    ELSE <<Head(sortedSeq)>> \o insertSorted(x, Tail(sortedSeq))

RECURSIVE sortAscending(_)
sortAscending(xs) ==
    IF xs = <<>> THEN <<>> ELSE insertSorted(Head(xs), sortAscending(Tail(xs)))

\* sorted[i], i counted from 0 as the code counts
At(sorted, i) == sorted[i + 1]

\* A plausible slip: the test of the all-equal distribution is left out.
rankerKindNoAllEqual(sorted) ==
    IF Len(sorted) = 0 THEN "null"
    ELSE IF Len(sorted) = 1 THEN "half"
    ELSE "general"

\* app.js 909-917
rankerKind(sorted) ==
    IF Len(sorted) = 0 THEN "null"
    ELSE IF Len(sorted) = 1 THEN "half"
    ELSE IF At(sorted, 0) = At(sorted, Len(sorted) - 1) THEN "half"
    ELSE "general"

createPercentileRanker(values) ==
    LET sorted == sortAscending(filterFinite(values))
    IN  [kind |-> rankerKind(sorted), sorted |-> sorted]

\* The binary search, app.js 923-932: the value of low when the loop ends.
RECURSIVE searchLow(_, _, _, _)
searchLow(sorted, value, low, high) ==
    IF low > high THEN low
    ELSE LET mid == (low + high) \div 2
         IN  IF At(sorted, mid) < value
             THEN searchLow(sorted, value, mid + 1, high)
             ELSE searchLow(sorted, value, low, mid - 1)

\* app.js 933-936
RECURSIVE firstEqualIndex(_, _, _)
firstEqualIndex(sorted, value, firstIndex) ==
    IF firstIndex > 0 /\ At(sorted, firstIndex - 1) = value
    THEN firstEqualIndex(sorted, value, firstIndex - 1)
    ELSE firstIndex

\* A plausible slip: the run of equal values is not followed to its end.
lastEqualIndexNoRun(sorted, value, lastEqual) == lastEqual

\* app.js 937-940
RECURSIVE lastEqualIndex(_, _, _)
lastEqualIndex(sorted, value, lastEqual) ==
    IF lastEqual + 1 < Len(sorted) /\ At(sorted, lastEqual + 1) = value
    THEN lastEqualIndex(sorted, value, lastEqual + 1)
    ELSE lastEqual

\* A plausible slip: the interpolation starts from firstIndex, not firstIndex - 1.
interpolateFromFirst(sorted, value, firstIndex) ==
    LET prevValue == At(sorted, firstIndex - 1)
        nextValue == At(sorted, firstIndex)
        span == IF nextValue - prevValue # 0 THEN nextValue - prevValue ELSE 1
    IN  Rank(firstIndex * span + (value - prevValue), span * (Len(sorted) - 1))

\* app.js 945-949: (firstIndex - 1 + (value - prevValue) / span) / lastIndex
interpolate(sorted, value, firstIndex) ==
    LET prevValue == At(sorted, firstIndex - 1)
        nextValue == At(sorted, firstIndex)
        span == IF nextValue - prevValue # 0 THEN nextValue - prevValue ELSE 1
    IN  Rank((firstIndex - 1) * span + (value - prevValue), span * (Len(sorted) - 1))

\* A plausible slip: the mean index of the matches is their sum, not halved.
rankGeneralSumIndex(sorted, value) ==
    LET lastIndex == Len(sorted) - 1
    IN  IF value <= At(sorted, 0) THEN Rank(0, 1)
        ELSE IF value >= At(sorted, lastIndex) THEN Rank(1, 1)
        ELSE LET low == searchLow(sorted, value, 0, lastIndex)
                 firstIndex == firstEqualIndex(sorted, value, IF low > 0 THEN low ELSE 0)
                 lastEqual == lastEqualIndex(sorted, value, firstIndex)
             IN  IF At(sorted, firstIndex) = value
                 THEN Rank(firstIndex + lastEqual, lastIndex)
                 ELSE interpolate(sorted, value, firstIndex)

\* The ranker of the general case, app.js 918-950, on a finite value.
rankGeneral(sorted, value) ==
    LET lastIndex == Len(sorted) - 1
    IN  IF value <= At(sorted, 0) THEN Rank(0, 1)
        ELSE IF value >= At(sorted, lastIndex) THEN Rank(1, 1)
        ELSE LET low == searchLow(sorted, value, 0, lastIndex)
                 firstIndex == firstEqualIndex(sorted, value, IF low > 0 THEN low ELSE 0)
                 lastEqual == lastEqualIndex(sorted, value, firstIndex)
             IN  IF At(sorted, firstIndex) = value
                 \* meanIndex / lastIndex, meanIndex = (firstIndex + lastEqual) / 2
                 THEN Rank(firstIndex + lastEqual, 2 * lastIndex)
                 ELSE interpolate(sorted, value, firstIndex)

\* A call of the ranker returned.
callRanker(r, value) ==
    IF r.kind = "null" THEN NullRank
    ELSE IF ~isFinite(value) THEN NullRank
    ELSE IF r.kind = "half" THEN Rank(1, 2)
    ELSE rankGeneral(r.sorted, value.v)

\* No ranker yet; the query and the result are those of a ranker called with NaN.
RankStart ==
    /\ rankValues = <<>>
    /\ ranker = [kind |-> "none", sorted |-> <<>>]
    /\ rankQuery = NaN
    /\ rankResult = NullRank

(***************************************************************************)
(* The quantile breaks of loadParcelValues (app.js 1652-1670).  A value per *)
(* square metre is counted in tenths, so that the plausible range 0.1 to   *)
(* 5000 is 1 to 50000.  The fractions 0.2, 0.4, 0.6, 0.8 are kept as fifths:*)
(* Math.floor(q * m) equals floor(k * m / 5) in IEEE doubles for every m    *)
(* up to 2,000,000, which was computed apart from this module.             *)
(***************************************************************************)
\* v >= 0.1 of the filter
PlausibleMin == 1

\* v <= 5000 of the filter
PlausibleMax == 50000

\* Number(f.properties?.valuePerSqMeter) || 0
numberOrZero(x) == IF x.nan THEN 0 ELSE x.v

\* The filter of app.js 1654-1657; every number of the model is finite.
plausible(v) == v > 0 /\ v >= PlausibleMin /\ v <= PlausibleMax

RECURSIVE filterPlausible(_)
filterPlausible(xs) ==
    IF xs = <<>> THEN <<>>
    ELSE IF plausible(numberOrZero(Head(xs)))
         THEN <<numberOrZero(Head(xs))>> \o filterPlausible(Tail(xs))
         ELSE filterPlausible(Tail(xs))

\* const quantiles = [0.2, 0.4, 0.6, 0.8], as numerators over quantileDenominator
quantiles == <<1, 2, 3, 4>>

quantileDenominator == 5

Min(a, b) == IF a <= b THEN a ELSE b

\* A break that rounds the index up in place of Math.floor.
breakIndexCeiling(q, length) ==
    Min(length - 1, (q * (length - 1) + quantileDenominator - 1) \div quantileDenominator)

\* Math.min(values.length - 1, Math.floor(q * (values.length - 1)))
breakIndex(q, length) == Min(length - 1, (q * (length - 1)) \div quantileDenominator)

NullStats == [isNull |-> TRUE, min |-> 0, max |-> 0]

\* parcelStats and parcelBreaks as app.js 1652-1670 leaves them
buildBreaks(perSqMeter) ==
    LET values == sortAscending(filterPlausible(perSqMeter))
    IN  IF Len(values) > 0
        THEN [stats  |-> [isNull |-> FALSE, min |-> At(values, 0),
                          max |-> At(values, Len(values) - 1)],
              breaks |-> [k \in 1..Len(quantiles) |->
                             At(values, breakIndex(quantiles[k], Len(values)))]]
        ELSE [stats |-> NullStats, breaks |-> <<>>]

\* let parcelBreaks = []; let parcelStats = null (module start)
BreakStart ==
    /\ valuePerSqMeter = <<>>
    /\ breaksBuilt = FALSE
    /\ parcelStats = NullStats
    /\ parcelBreaks = <<>>

(***************************************************************************)
(* The premium estimate of renderInsuranceInfo (app.js 2114-2162).  Money  *)
(* is counted in whole dollars and a premium in thousandths of a dollar,   *)
(* so that totalValue * premiumRate is an integer; the code multiplies in  *)
(* IEEE doubles.                                                           *)
(***************************************************************************)
\* riskProfiles[zoneId].premiumRate, in thousandths
riskProfiles ==
    [VE |-> 18, AE |-> 15, AO |-> 12, A |-> 12, X |-> 6, none |-> 4]

rateDenominator == 1000

premiumMinimum == 450

premiumMaximum == 7200

coverageMaximum == 250000

Max(a, b) == IF a >= b THEN a ELSE b

\* zoneResult?.zoneId ?? "none"
zoneIdOf(zoneFound) == IF zoneFound.found THEN zoneFound.zoneId ELSE "none"

\* riskProfiles[zoneId] ?? riskProfiles.none
profileOf(zoneId) ==
    IF zoneId \in DOMAIN riskProfiles THEN riskProfiles[zoneId] ELSE riskProfiles["none"]

\* An estimate without the lower clamp.
estimatedPremiumNoMinimum(propertyValue, premiumRate) ==
    Min(propertyValue * premiumRate, premiumMaximum * rateDenominator)

\* Math.min(Math.max(propertyValue * profile.premiumRate, 450), 7200), in thousandths
estimatedPremium(propertyValue, premiumRate) ==
    Min(Max(propertyValue * premiumRate, premiumMinimum * rateDenominator),
        premiumMaximum * rateDenominator)

\* Math.min(propertyValue, 250000)
recommendedCoverage(propertyValue) == Min(propertyValue, coverageMaximum)

\* insurancePlaceholderHtml(): no estimate is shown
NoEstimate == [shown |-> FALSE, premium |-> 0, coverage |-> 0]

\* A parcel result: parcelResult?.feature and Number(properties?.totalValue)
NoParcel == [hasFeature |-> FALSE, totalValue |-> NaN]

\* What renderInsuranceInfo shows for a zone result and a parcel result.
renderInsuranceInfo(zoneFound, parcelResult) ==
    LET profile == profileOf(zoneIdOf(zoneFound))
        rawPropertyValue == parcelResult.totalValue
    IN  IF ~parcelResult.hasFeature \/ ~isFinite(rawPropertyValue) \/ rawPropertyValue.v <= 0
        THEN NoEstimate
        ELSE [shown    |-> TRUE,
              premium  |-> estimatedPremium(rawPropertyValue.v, profile),
              coverage |-> recommendedCoverage(rawPropertyValue.v)]

\* Nothing is selected: the placeholder is shown.
InsuranceStart ==
    /\ insuranceInput = [zoneResult |-> NoZone, parcelResult |-> NoParcel]
    /\ insuranceResult = NoEstimate

(***************************************************************************)
(* Coordinate normalization: parseCrs, createTransformer, transformGeometry *)
(* and normalizeFeatures (app.js 6-83).  A reference system name is a       *)
(* sequence of characters.  proj4 is a library outside the code: it throws *)
(* for a code it has no definition of, and what it returns for a code it   *)
(* has a definition of is left open.                                       *)
(***************************************************************************)
WGS84 == <<"E", "P", "S", "G", ":", "4", "3", "2", "6">>

CRS_84 == <<"C", "R", "S", ":", "8", "4">>

EPSG_32161 == <<"E", "P", "S", "G", ":", "3", "2", "1", "6", "1">>

EPSG_4269 == <<"E", "P", "S", "G", ":", "4", "2", "6", "9">>

EPSG_3857 == <<"E", "P", "S", "G", ":", "3", "8", "5", "7">>

\* The keys of projDefinitions (app.js 8-13)
projDefinitions == {EPSG_32161, EPSG_4269, CRS_84}

\* The codes proj4 defines by itself
proj4Defs == {WGS84, EPSG_4269, EPSG_3857}

Digits == {"0", "1", "2", "3", "4", "5", "6", "7", "8", "9"}

\* [:/]* from index i: the index behind it
RECURSIVE skipSeparators(_, _)
skipSeparators(str, i) ==
    IF i <= Len(str) /\ str[i] \in {":", "/"} THEN skipSeparators(str, i + 1) ELSE i

\* (\d+) from index i: the digits, none if there is no match
RECURSIVE digitRun(_, _)
digitRun(str, i) ==
    IF i <= Len(str) /\ str[i] \in Digits THEN <<str[i]>> \o digitRun(str, i + 1) ELSE <<>>

\* /EPSG[:/]*(\d+)/i tried at index i
epsgMatchAt(str, i) ==
    IF i + 3 <= Len(str) /\ toUpperCase(SubSeq(str, i, i + 3)) = <<"E", "P", "S", "G">>
    THEN digitRun(str, skipSeparators(str, i + 4))
    ELSE <<>>

\* crs.match(/EPSG[:/]*(\d+)/i): the group of the leftmost match, <<>> for no match
matchEpsg(str) ==
    LET starts == {i \in 1..Len(str) : epsgMatchAt(str, i) # <<>>}
    IN  IF starts = {} THEN <<>>
        ELSE epsgMatchAt(str, CHOOSE i \in starts : \A j \in starts : i <= j)

\* A crs member with no name.
NoCrs == [declared |-> FALSE, name |-> <<>>]

\* parseCrs(geojson), of geojson?.crs?.properties?.name
parseCrs(crs) ==
    IF ~crs.declared \/ crs.name = <<>> THEN WGS84
    ELSE IF matchEpsg(crs.name) # <<>> THEN <<"E", "P", "S", "G", ":">> \o matchEpsg(crs.name)
    ELSE IF \/ includes(toUpperCase(crs.name), <<"C", "R", "S", "8", "4">>)
            \/ includes(toUpperCase(crs.name),
                        <<"O", "G", "C", ":", "1", ".", "3", ":", "C", "R", "S", "8", "4">>)
         THEN CRS_84
    ELSE WGS84

\* createTransformer(fromCode): which of the two functions it returns
createTransformer(fromCode) ==
    IF fromCode = <<>> \/ fromCode = WGS84 \/ fromCode = CRS_84
    THEN [kind |-> "slice", fromCode |-> fromCode]
    ELSE [kind |-> "proj4", fromCode |-> fromCode]

\* ensureProjDefinition(fromCode) done, proj4 has a definition of the code
defined(fromCode) == fromCode \in proj4Defs \/ fromCode \in projDefinitions

\* What proj4 returns for a pair in a system it has a definition of: some pair,
\* the projection itself is not computed here.
proj4Forward(pair) == CHOOSE lonLat \in (0..4) \X (0..4) : TRUE

\* A slice that keeps the first element only.
sliceOne(coords) == SubSeq(coords, 1, Min(1, Len(coords)))

\* coords.slice(0, 2)
slice(coords) == SubSeq(coords, 1, Min(2, Len(coords)))

\* The transformer throws when it is called: proj4 has no definition of the code.
throws(transformer) == transformer.kind = "proj4" /\ ~defined(transformer.fromCode)

\* transform(coords), for a transformer that does not throw
transform(transformer, coords) ==
    IF transformer.kind = "slice" THEN slice(coords)
    ELSE proj4Forward(<<coords[1], coords[2]>>)

NullGeometry == [type |-> "null", coordinates |-> <<>>]

\* The number of calls of transform that transformGeometry makes.
transformCalls(geometry) ==
    CASE geometry.type = "Point" -> 1
      [] geometry.type \in {"MultiPoint", "LineString"} -> Len(geometry.coordinates)
      [] geometry.type \in {"MultiLineString", "Polygon"} ->
            Len(Concat(geometry.coordinates))
      [] geometry.type = "MultiPolygon" -> Len(Concat(Concat(geometry.coordinates)))
      [] OTHER -> 0

mapTransform(transformer, coordinates) ==
    [i \in 1..Len(coordinates) |-> transform(transformer, coordinates[i])]

\* transformGeometry(geometry, transform), for a transformer that does not throw
transformGeometry(geometry, transformer) ==
    CASE geometry.type = "null" -> geometry
      [] geometry.type = "Point" ->
            [geometry EXCEPT !.coordinates = transform(transformer, @)]
      [] geometry.type \in {"MultiPoint", "LineString"} ->
            [geometry EXCEPT !.coordinates = mapTransform(transformer, @)]
      [] geometry.type \in {"MultiLineString", "Polygon"} ->
            [geometry EXCEPT !.coordinates =
                [r \in 1..Len(@) |-> mapTransform(transformer, @[r])]]
      [] geometry.type = "MultiPolygon" ->
            [geometry EXCEPT !.coordinates =
                [p \in 1..Len(@) |->
                    [r \in 1..Len(@[p]) |-> mapTransform(transformer, @[p][r])]]]
      [] OTHER -> geometry

NotNormalized == [threw |-> FALSE, features |-> <<>>]

\* normalizeFeatures(geojson): the features with their geometry transformed, or
\* the throw of the first call of a transformer that throws
normalizeFeatures(collection) ==
    LET transformer == createTransformer(parseCrs(collection.crs))
    IN  IF /\ throws(transformer)
           /\ \E i \in 1..Len(collection.features) :
                  transformCalls(collection.features[i].geometry) > 0
        THEN [threw |-> TRUE, features |-> <<>>]
        ELSE [threw    |-> FALSE,
              features |-> [i \in 1..Len(collection.features) |->
                               [collection.features[i] EXCEPT
                                   !.geometry = transformGeometry(@, transformer)]]]

\* .filter(f => f.geometry)
RECURSIVE filterGeometry(_)
filterGeometry(features) ==
    IF features = <<>> THEN <<>>
    ELSE IF Head(features).geometry.type # "null"
         THEN <<Head(features)>> \o filterGeometry(Tail(features))
         ELSE filterGeometry(Tail(features))

NotLoaded == [state |-> "pending", features |-> <<>>]

\* The first statements of a loader's try block (app.js 1523-1525) and its catch
\* (app.js 1556-1559): the layer is stored, or the error is logged.
storeLayer(collection) ==
    IF normalizeFeatures(collection).threw
    THEN [state |-> "failed", features |-> <<>>]
    ELSE [state |-> "loaded",
          features |-> filterGeometry(normalizeFeatures(collection).features)]

NormalizeStart ==
    /\ geojson = [crs |-> 1, features |-> <<>>]
    /\ normalized = NotNormalized
    /\ layerLoad = NotLoaded

(***************************************************************************)
(* The parcel layer: loadParcelValues (app.js 1562-1744) as far as the     *)
(* state the queries read.  A centroid is kept as the sums and the count   *)
(* it is the quotient of, a mean of centroids as the centroids it is the   *)
(* mean of, and a Leaflet LatLngBounds as the points it was extended by.   *)
(* The Leaflet and DOM calls of the loader are taken not to throw.         *)
(***************************************************************************)
NullCentroid == [isNull |-> TRUE, parts |-> <<>>]

RECURSIVE sumOf(_, _)
sumOf(coords, k) == IF coords = <<>> THEN 0 ELSE Head(coords)[k] + sumOf(Tail(coords), k)

\* accumulate(clean) and clean.length
ringMean(clean) == [lon |-> sumOf(clean, 1), lat |-> sumOf(clean, 2), count |-> Len(clean)]

\* geometryCentroid throws: outer is geometry.coordinates[0] of a Polygon of no
\* ring, and outer.filter is read of undefined.
centroidThrows(geometry) == geometry.type = "Polygon" /\ geometry.coordinates = <<>>

\* The centroids of the polygons of a MultiPolygon that have an outer ring with
\* a point (app.js 110-118).
RECURSIVE polygonCentroids(_)
polygonCentroids(polys) ==
    IF polys = <<>> THEN <<>>
    ELSE LET poly  == Head(polys)
             outer == IF poly = <<>> THEN <<>> ELSE poly[1]
         IN  (IF outer = <<>> THEN <<>> ELSE <<ringMean(outer)>>)
                 \o polygonCentroids(Tail(polys))

\* geometryCentroid(geometry), where it does not throw
geometryCentroid(geometry) ==
    CASE geometry.type = "null" -> NullCentroid
      [] geometry.type = "Point" ->
            [isNull |-> FALSE,
             parts  |-> <<[lon |-> geometry.coordinates[1], lat |-> geometry.coordinates[2],
                           count |-> 1]>>]
      [] geometry.type = "MultiPoint" ->
            [isNull |-> FALSE, parts |-> <<ringMean(geometry.coordinates)>>]
      [] geometry.type \in {"LineString", "Polygon"} ->
            LET outer == IF geometry.type = "Polygon" THEN geometry.coordinates[1]
                         ELSE geometry.coordinates
            IN  IF outer = <<>> THEN NullCentroid
                ELSE [isNull |-> FALSE, parts |-> <<ringMean(outer)>>]
      [] geometry.type = "MultiPolygon" ->
            IF polygonCentroids(geometry.coordinates) = <<>> THEN NullCentroid
            ELSE [isNull |-> FALSE, parts |-> polygonCentroids(geometry.coordinates)]
      [] OTHER -> NullCentroid

\* centroid && Number.isFinite(centroid[0]) && Number.isFinite(centroid[1]): a
\* quotient by 0 is NaN
finiteCentroid(centroid) ==
    /\ ~centroid.isNull
    /\ \A k \in 1..Len(centroid.parts) : centroid.parts[k].count > 0

\* Number(properties?.LONGITUDE), Number(properties?.LATITUDE): NaN if absent
NoFallback == [has |-> FALSE, lon |-> 0, lat |-> 0]

\* centroidCoords (app.js 1590-1595)
centroidCoords(centroid, fallback) ==
    IF finiteCentroid(centroid) THEN centroid
    ELSE IF fallback.has
         THEN [isNull |-> FALSE,
               parts  |-> <<[lon |-> fallback.lon, lat |-> fallback.lat, count |-> 1]>>]
         ELSE NullCentroid

\* "Unnamed Parcel"
UnnamedParcel ==
    <<"U", "n", "n", "a", "m", "e", "d", " ", "P", "a", "r", "c", "e", "l">>

\* props.percentiles of a parcel that has none
NoPercentiles ==
    [isSet |-> FALSE, totalValue |-> NullRank, improvementValue |-> NullRank,
     valuePerAcre |-> NullRank]

\* One turn of parcels.map (app.js 1583-1624) for a feature whose centroid does
\* not throw; totalValue / areaSqMeters is counted in tenths.
mapParcel(f) ==
    [id              |-> f.id,
     pool            |-> f.pool,
     geometry        |-> f.geometry,
     displayName     |-> IF f.Name = <<>> THEN UnnamedParcel ELSE f.Name,
     totalValue      |-> f.totalValue,
     valuePerSqMeter |-> Num(IF f.area > 0 THEN (10 * f.totalValue) \div f.area ELSE 0),
     centroid        |-> centroidCoords(geometryCentroid(f.geometry), f.fallback),
     bounds          |-> geometryBounds(f.geometry),
     percentiles     |-> NoPercentiles]

\* The collection as it is published at app.js 1627, were a query to read it
\* there: no parcel has its percentiles.
publishedBeforePercentiles(parcels) == parcels

\* The parcels after app.js 1724-1738: each has the ranks of its three metrics
\* in the distributions of all parcels of the file.  The parcels of the model
\* have no Improved_V, so improvementValue is 0 for all; valuePerAcre is
\* valuePerSqMeter in other units, and is ranked by it.
withPercentiles(parcels) ==
    LET totalValue == createPercentileRanker([i \in 1..Len(parcels) |->
                                                 Num(parcels[i].totalValue)])
        improvementValue == createPercentileRanker([i \in 1..Len(parcels) |-> Num(0)])
        valuePerAcre == createPercentileRanker([i \in 1..Len(parcels) |->
                                                   parcels[i].valuePerSqMeter])
    IN  [i \in 1..Len(parcels) |->
            [parcels[i] EXCEPT !.percentiles =
                [isSet            |-> TRUE,
                 totalValue       |-> callRanker(totalValue, Num(parcels[i].totalValue)),
                 improvementValue |-> callRanker(improvementValue, Num(0)),
                 valuePerAcre     |-> callRanker(valuePerAcre, parcels[i].valuePerSqMeter)]]]

\* The centroids the loop of app.js 1629-1646 extends parcelBounds by and sums.
RECURSIVE countedCentroids(_)
countedCentroids(parcels) ==
    IF parcels = <<>> THEN <<>>
    ELSE LET f == Head(parcels)
         IN  (IF finiteCentroid(f.centroid) THEN <<f.centroid>>
              ELSE IF finiteCentroid(geometryCentroid(f.geometry))
                   THEN <<geometryCentroid(f.geometry)>>
                   ELSE <<>>)
                 \o countedCentroids(Tail(parcels))

NullCollection == [isNull |-> TRUE, features |-> <<>>]

NullLatLngBounds == [isNull |-> TRUE, points |-> <<>>]

\* The parcel state: the five variables loadParcelValues assigns.
ParcelState(collection, bounds, centroid, stats, breaks) ==
    [parcelCollection |-> collection, parcelBounds |-> bounds,
     parcelCentroid |-> centroid, parcelStats |-> stats, parcelBreaks |-> breaks]

\* loadParcelValues once the file is fetched and parsed (app.js 1569-1743): the
\* parcel state it leaves, from the state before it and the file.
loadParcelValues(before, file) ==
    IF normalizeFeatures(file).threw THEN before                     \* app.js 1569
    ELSE LET kept == filterGeometry(normalizeFeatures(file).features)
             reset == [before EXCEPT                                \* app.js 1571-1572
                          !.parcelBounds = [isNull |-> FALSE, points |-> <<>>],
                          !.parcelCentroid = NullCentroid]
         IN  IF \E i \in 1..Len(kept) : centroidThrows(kept[i].geometry)
             THEN reset                                             \* app.js 1587
             ELSE LET parcels == [i \in 1..Len(kept) |-> mapParcel(kept[i])]
                      counted == countedCentroids(parcels)
                      built   == buildBreaks([i \in 1..Len(parcels) |->
                                                 parcels[i].valuePerSqMeter])
                  IN  ParcelState([isNull |-> FALSE, features |-> withPercentiles(parcels)],
                                  [isNull |-> FALSE, points |-> counted],
                                  IF counted = <<>> THEN NullCentroid
                                  ELSE [isNull |-> FALSE, parts |-> Concat(
                                           [k \in 1..Len(counted) |-> counted[k].parts])],
                                  built.stats, built.breaks)

\* The catch of loadParcelValues ran (app.js 1739-1742).
parcelLoadThrows(file) ==
    \/ normalizeFeatures(file).threw
    \/ \E i \in 1..Len(file.features) : centroidThrows(file.features[i].geometry)

NoFile == [crs |-> NoCrs, features |-> <<>>]

\* No query yet.  asked: the state of the load when the query was made.
NoQuery == [kind |-> "none", point |-> <<0, 0>>, text |-> <<>>, asked |-> "pending"]

NoParcelFound == [found |-> FALSE, index |-> 0]

ParcelStart ==
    /\ parcelCollection = NullCollection
    /\ parcelBounds = NullLatLngBounds
    /\ parcelCentroid = NullCentroid
    /\ parcelLoad = [state |-> "pending", file |-> NoFile]
    /\ parcelQuery = NoQuery
    /\ parcelFound = NoParcelFound

(***************************************************************************)
(* The parcel queries: findParcelAtPoint (app.js 1816-1837) without the    *)
(* distance it also returns, and findParcelByName (app.js 2241-2272).      *)
(***************************************************************************)
\* The first feature in the collection's order that holds the point.
RECURSIVE scanParcels(_, _, _)
scanParcels(p, features, i) ==
    IF i > Len(features) THEN NoParcelFound
    ELSE IF featureContains(p, features[i]) THEN [found |-> TRUE, index |-> i]
    ELSE scanParcels(p, features, i + 1)

findParcelAtPoint(p, collection) ==
    IF collection.isNull \/ Len(collection.features) = 0 THEN NoParcelFound
    ELSE scanParcels(p, collection.features, 1)

\* The lower case of each upper case letter.
lowerOf == [c \in {UpperCase[k] : k \in 1..Len(UpperCase)} |->
               LowerCase[CHOOSE k \in 1..Len(UpperCase) : UpperCase[k] = c]]

\* String.prototype.toLowerCase: every other character is kept.
toLowerCase(str) ==
    [i \in 1..Len(str) |-> IF str[i] \in DOMAIN lowerOf THEN lowerOf[str[i]] ELSE str[i]]

\* String.prototype.indexOf, counted from 0, -1 if the token is not in the string
indexOf(str, token) ==
    LET at == {i \in 0..(Len(str) - Len(token)) : SubSeq(str, i + 1, i + Len(token)) = token}
    IN  IF at = {} THEN -1 ELSE CHOOSE i \in at : \A j \in at : i <= j

\* The rank of a candidate (app.js 2257-2262)
nameRank(lowerName, normalizedQuery) ==
    IF lowerName = normalizedQuery THEN -2
    ELSE IF indexOf(lowerName, normalizedQuery) = 0 THEN -1
    ELSE indexOf(lowerName, normalizedQuery)

\* A plausible slip: the candidates sorted by the length of the name first.
findParcelByNameShortest(query, collection) ==
    LET normalizedQuery == toLowerCase(trim(query))
        name(i) == trim(collection.features[i].displayName)
        candidates == {i \in 1..Len(collection.features) :
                          /\ name(i) # <<>>
                          /\ indexOf(toLowerCase(name(i)), normalizedQuery) # -1}
        rank(i) == nameRank(toLowerCase(name(i)), normalizedQuery)
        before(i, j) ==
            \/ Len(name(i)) < Len(name(j))
            \/ Len(name(i)) = Len(name(j)) /\ rank(i) < rank(j)
            \/ Len(name(i)) = Len(name(j)) /\ rank(i) = rank(j) /\ i <= j
    IN  IF query = <<>> \/ collection.isNull \/ normalizedQuery = <<>> \/ candidates = {}
        THEN NoParcelFound
        ELSE [found |-> TRUE,
              index |-> CHOOSE i \in candidates : \A j \in candidates : before(i, j)]

\* findParcelByName(query): the candidate of the least rank, then of the shortest
\* name, then the first in the collection's order (the sort is stable)
findParcelByName(query, collection) ==
    LET normalizedQuery == toLowerCase(trim(query))
        name(i) == trim(collection.features[i].displayName)
        candidates == {i \in 1..Len(collection.features) :
                          /\ name(i) # <<>>
                          /\ indexOf(toLowerCase(name(i)), normalizedQuery) # -1}
        rank(i) == nameRank(toLowerCase(name(i)), normalizedQuery)
        before(i, j) ==
            \/ rank(i) < rank(j)
            \/ rank(i) = rank(j) /\ Len(name(i)) < Len(name(j))
            \/ rank(i) = rank(j) /\ Len(name(i)) = Len(name(j)) /\ i <= j
    IN  IF query = <<>> \/ collection.isNull \/ normalizedQuery = <<>> \/ candidates = {}
        THEN NoParcelFound
        ELSE [found |-> TRUE,
              index |-> CHOOSE i \in candidates : \A j \in candidates : before(i, j)]

\* handleParcelSearch up to findParcelByName (app.js 2308-2323)
handleParcelSearch(text, collection) ==
    IF trim(text) = <<>> THEN NoParcelFound
    ELSE IF collection.isNull \/ Len(collection.features) = 0 THEN NoParcelFound
    ELSE findParcelByName(trim(text), collection)

(***************************************************************************)
(* The handlers of a click on the map and of a parcel search (app.js       *)
(* 2274-2334, 2397-2428), as far as the queries they make, and init (app.js *)
(* 2470-2484).  The Leaflet and DOM calls of the handlers are taken not to *)
(* throw.                                                                  *)
(***************************************************************************)
\* Nothing is selected.  threw: the handler ended in an exception.
NoSelection ==
    [kind |-> "none", threw |-> FALSE, selected |-> FALSE, lonLat |-> <<0, 0>>,
     parcel |-> NoParcelFound, zone |-> NoZone, shelter |-> NoShelter]

\* getParcelLonLat(parcelFeature), app.js 1408-1435, of a parcel of the
\* collection: its __centroid where that is finite.  LONGITUDE and LATITUDE and
\* the centroid of the geometry are what __centroid was built from (app.js
\* 1587-1595), so they yield nothing where it is not finite.  The quotient is
\* taken where it is a pair of whole numbers.
getParcelLonLat(parcelFeature) ==
    IF finiteCentroid(parcelFeature.centroid) /\ Len(parcelFeature.centroid.parts) = 1
    THEN [ok     |-> TRUE,
          lonLat |-> <<parcelFeature.centroid.parts[1].lon
                           \div parcelFeature.centroid.parts[1].count,
                       parcelFeature.centroid.parts[1].lat
                           \div parcelFeature.centroid.parts[1].count>>]
    ELSE [ok |-> FALSE, lonLat |-> <<0, 0>>]

\* parcelFeature?.properties?.Tax_Legal_ of a parcel of the collection: the
\* parcels of the model have no such property.
legalDescriptionOf(parcelFeature) == NoLegal

\* The features findFloodZone reads, in the order it reads them (app.js
\* 1754-1756).
RECURSIVE zoneFeaturesFrom(_, _)
zoneFeaturesFrom(map, k) ==
    IF k > Len(zonePriority) THEN <<>>
    ELSE layerFeatures(map, zonePriority[k]) \o zoneFeaturesFrom(map, k + 1)

\* pointInPolygon throws (app.js 2354-2355, 2340): rings[0] of a Polygon of no
\* ring is undefined, and pointInRing reads its length.  Such a feature has no
\* __bounds (app.js 171-173), so it is never skipped.
ringless(f) == f.geometry.type = "Polygon" /\ Len(f.geometry.coordinates) = 0

\* findFloodZone throws: it comes to a Polygon of no ring before any feature
\* that holds the point.
findFloodZoneThrows(p, map) ==
    LET read == zoneFeaturesFrom(map, 1)
    IN  \E i \in 1..Len(read) :
            /\ ringless(read[i])
            /\ \A j \in 1..(i - 1) : ~ringless(read[j]) /\ ~featureContains(p, read[j])

\* The queries both handlers make once a parcel and its place are known (app.js
\* 2291-2293, 2416-2417); what findFloodZone throws leaves the handler.
selectAt(kind, lonLat, match, collection, map, shelters) ==
    IF findFloodZoneThrows(lonLat, map)
    THEN [kind |-> kind, threw |-> TRUE, selected |-> FALSE, lonLat |-> lonLat,
          parcel |-> match, zone |-> NoZone, shelter |-> NoShelter]
    ELSE [kind     |-> kind,
          threw    |-> FALSE,
          selected |-> TRUE,
          lonLat   |-> lonLat,
          parcel   |-> match,
          zone     |-> findFloodZone(lonLat, map),
          shelter  |-> findNearestShelter(
                           lonLat, legalDescriptionOf(collection.features[match.index]),
                           shelters)]

\* A handler without the early return of app.js 2404-2412: parcelResult.feature
\* is read of null.
handleMapClickNoReturn(p, collection, map, shelters) ==
    IF ~findParcelAtPoint(p, collection).found
    THEN [NoSelection EXCEPT !.kind = "click", !.threw = TRUE]
    ELSE selectAt("click", p, findParcelAtPoint(p, collection), collection, map, shelters)

\* handleMapClick(event), app.js 2397-2428
handleMapClick(p, collection, map, shelters) ==
    IF ~findParcelAtPoint(p, collection).found
    THEN [NoSelection EXCEPT !.kind = "click"]
    ELSE selectAt("click", p, findParcelAtPoint(p, collection), collection, map, shelters)

\* handleParcelSearch(event) and selectParcelFeature(match), app.js 2274-2334
searchParcel(text, collection, map, shelters) ==
    LET match == handleParcelSearch(text, collection)
    IN  IF ~match.found THEN [NoSelection EXCEPT !.kind = "search"]
        ELSE IF ~getParcelLonLat(collection.features[match.index]).ok
        THEN [NoSelection EXCEPT !.kind = "search", !.parcel = match]
        ELSE selectAt("search", getParcelLonLat(collection.features[match.index]).lonLat,
                      match, collection, map, shelters)

\* The parcel result the handlers pass to renderInsuranceInfo (app.js 2293, 2421).
parcelResultOf(selected, collection) ==
    [hasFeature |-> TRUE,
     totalValue |-> Num(collection.features[selected.parcel.index].totalValue)]

\* A loop that ends at the first failure: the try around the whole loop.
afterCatchAbort(pos) == Len(floodZonesConfig) + 1

\* loadFloodZones after the catch of a turn (app.js 1502-1514): the loop goes on
\* with the next layer.
afterCatch(pos) == pos + 1

\* The zone layers whose turn of loadFloodZones is over.
turnsOver(pos) == {floodZonesConfig[k] : k \in 1..(pos - 1)}

\* The layers a query can read, as the handlers find them.
Available(pos, failed, shelterState, parcelState) ==
    [zones |-> turnsOver(pos) \ failed, shelters |-> shelterState, parcels |-> parcelState]

AppStart ==
    /\ zoneLoadFailed = {}
    /\ initStatus = "running"
    /\ selection = NoSelection
    /\ asked = Available(1, {}, "pending", "pending")

(***************************************************************************)
(* The language of the page (app.js 229-839) and the description that      *)
(* findFloodZone returns with a zone (app.js 1762-1766).  A text of the    *)
(* translations table is named by its language and its zone: the fifteen   *)
(* descriptions (app.js 277-285, 434-442, 591-599) are distinct texts.     *)
(***************************************************************************)
\* The languages translations has an entry for (app.js 233, 390, 547).
Languages == {"en", "es", "zh"}

\* translations[lng].zones.descriptions[zoneId]
descriptionText(lng, zoneId) == [language |-> lng, zone |-> zoneId]

\* translate(`zones.descriptions.${zoneId}`), app.js 733-749, for a zone of
\* zonePriority: the text of the language, or of "en" for a language without
\* table.
translate(zoneId, lang) ==
    IF lang \in Languages THEN descriptionText(lang, zoneId) ELSE descriptionText("en", zoneId)

\* What findFloodZone returns (app.js 1761-1769): null, or the zone, the feature
\* and the description in the current language.
findFloodZoneResult(p, map, lang) ==
    IF ~findFloodZone(p, map).found THEN [isNull |-> TRUE]
    ELSE [isNull      |-> FALSE,
          zoneId      |-> findFloodZone(p, map).zoneId,
          description |-> translate(findFloodZone(p, map).zoneId, lang),
          feature     |-> findFloodZone(p, map).index]

\* if (!translations[lang]) lang = "en" (app.js 836-838)
languageOrEnglish(lang) == IF lang \in Languages THEN lang ELSE "en"

\* currentSelection = null (app.js 1036)
NoCurrentSelection == [isNull |-> TRUE, lonLat |-> <<0, 0>>, parcelFeature |-> 0]

\* One call of findFloodZone: the point, the zone layers and the language it
\* ran with, and what it returned.
zoneCall(p, map, lang) ==
    [point |-> p, snapshot |-> map, language |-> lang,
     result |-> findFloodZoneResult(p, map, lang)]

\* The page of a browser in English, after setLanguage(initialLanguage) (app.js
\* 2459-2467), with nothing selected and findFloodZone not yet called.
LanguageStart ==
    /\ currentLanguage = "en"
    /\ currentSelection = NoCurrentSelection
    /\ zoneCalls = <<>>

(***************************************************************************)
(* The metrics of a parcel (app.js 1584-1606) from its attributes, and the *)
(* distributions the percentile rankers are built from.  An attribute is   *)
(* absent, a text that is no number, or a number, which JSON lets be too   *)
(* large for a double (1e999 parses to Infinity).  A number of the code is *)
(* NaN, plus or minus Infinity, or the quotient n / d of whole numbers;    *)
(* valuePerAcre is counted in multiples of ACRE_IN_SQ_METERS (app.js 876), *)
(* in which it is totalValue / areaSqMeters.                               *)
(***************************************************************************)
NotANumber == [kind |-> "nan", n |-> 0, d |-> 1]

PlusInfinity == [kind |-> "inf", n |-> 1, d |-> 1]

MinusInfinity == [kind |-> "inf", n |-> -1, d |-> 1]

Finite(n, d) == [kind |-> "finite", n |-> IF n = 0 THEN 0 ELSE n, d |-> IF n = 0 THEN 1 ELSE d]

AbsentAttribute == [kind |-> "absent", text |-> NotANumber]

\* Number(value) of an attribute: NaN for undefined and for a text that is no
\* number, the number otherwise
NumberOf(attribute) == attribute.text

\* x || 0: 0 for NaN and for 0
orZero(x) == IF x.kind = "nan" \/ (x.kind = "finite" /\ x.n = 0) THEN Finite(0, 1) ELSE x

\* a + b of two numbers that are whole where finite
plus(a, b) ==
    IF a.kind = "nan" \/ b.kind = "nan" THEN NotANumber
    ELSE IF a.kind = "inf" /\ b.kind = "inf" THEN (IF a.n = b.n THEN a ELSE NotANumber)
    ELSE IF a.kind = "inf" THEN a
    ELSE IF b.kind = "inf" THEN b
    ELSE Finite(a.n + b.n, 1)

\* x > 0
positive(x) == x.kind # "nan" /\ x.n > 0

\* a / b for b > 0
dividedBy(a, b) ==
    IF a.kind = "nan" THEN NotANumber
    ELSE IF a.kind = "inf" THEN (IF b.kind = "inf" THEN NotANumber ELSE a)
    ELSE IF b.kind = "inf" THEN Finite(0, 1)
    ELSE Finite(a.n, b.n)

\* The metrics of one turn of parcels.map (app.js 1584-1602)
parcelMetrics(properties) ==
    LET landValue        == orZero(NumberOf(properties.Land_Value))
        improvementValue == orZero(NumberOf(properties.Improved_V))
        totalValue       == plus(landValue, improvementValue)
        areaSqMeters     == orZero(NumberOf(properties.SHAPE_Area))
    IN  [landValue        |-> landValue,
         improvementValue |-> improvementValue,
         totalValue       |-> totalValue,
         valuePerSqMeter  |-> IF positive(areaSqMeters)
                              THEN dividedBy(totalValue, areaSqMeters) ELSE Finite(0, 1),
         valuePerAcre     |-> IF positive(areaSqMeters)        \* acres > 0
                              THEN dividedBy(totalValue, areaSqMeters) ELSE Finite(0, 1)]

\* metricDistributions after the pushes of one turn (app.js 1604-1606)
pushMetrics(distributions, metrics) ==
    [totalValue       |-> Append(distributions.totalValue, metrics.totalValue),
     improvementValue |-> Append(distributions.improvementValue, metrics.improvementValue),
     valuePerAcre     |-> Append(distributions.valuePerAcre, metrics.valuePerAcre)]

\* metricDistributions as declared (app.js 1576-1580), before any parcel is mapped.
MetricStart ==
    /\ mappedProperties = <<>>
    /\ mappedMetrics = <<>>
    /\ metricDistributions = [totalValue |-> <<>>, improvementValue |-> <<>>,
                              valuePerAcre |-> <<>>]


(***************************************************************************)
(* SlideDeck (project_h/js/slidedeck.js).  A Leaflet layer is an object:   *)
(* the layer built for a bin is named by the call of constructBinnedLayers *)
(* that built it and by the index of its bin.  dataLayer is the set of     *)
(* layers the layer group holds.                                           *)
(***************************************************************************)
\* The layers one call of constructBinnedLayers pushes (slidedeck.js 21,
\* 48-76): one new layer for each bin.
builtLayers(build, binCount) == [k \in 1..binCount |-> [build |-> build, bin |-> k - 1]]

\* The deck after the constructor (slidedeck.js 4-12).
NewDeck ==
    [binLayers |-> <<>>, dataLayer |-> {}, onMap |-> FALSE, currentBin |-> -1]

\* constructBinnedLayers(geojson, bins), slidedeck.js 19-77, for the build-th
\* call and bins.length = binCount
constructBinnedLayers(deck, build, binCount) ==
    [deck EXCEPT !.binLayers = builtLayers(build, binCount)]

\* updateDataLayerByBin(binIndex), slidedeck.js 79-108
updateDataLayerByBin(deck, binIndex) ==
    LET i == Max(0, Min(binIndex, Len(deck.binLayers) - 1))
    IN  IF Len(deck.binLayers) = 0 THEN deck
        ELSE IF binIndex < 0
        THEN [deck EXCEPT !.dataLayer = {}, !.onMap = FALSE, !.currentBin = -1]
        ELSE IF i = deck.currentBin THEN deck
        ELSE [deck EXCEPT !.onMap = TRUE,
                          !.dataLayer = {deck.binLayers[k + 1] : k \in 0..i},
                          !.currentBin = i]

DeckStart ==
    /\ slideDeck = NewDeck
    /\ deckBuilds = 0
    /\ deckCall = [op |-> "new", binIndex |-> 0, before |-> NewDeck]


(***************************************************************************)
(* The scrolling page of project_h (project_h/js/index.js).  geojsonData   *)
(* is the list of the OBJECTIDs of its Point features, which is all that   *)
(* featuresForIds reads.  A slide is named by its element id, and "" is    *)
(* null.                                                                   *)
(***************************************************************************)
\* YEAR_BINS.length (index.js 18-27)
YearBinCount == 8

\* FOCUS_SLIDE_IDS (index.js 46-52)
FOCUS_SLIDE_IDS ==
    <<"Tenth-Slide", "Eleventh-Slide", "Twelvth-Slide", "Thirteenth-Slide",
      "Fourteenth-Slide">>

\* FOCUS_OBJECTIDS (index.js 55-61)
FOCUS_OBJECTIDS ==
    [id \in {FOCUS_SLIDE_IDS[k] : k \in 1..Len(FOCUS_SLIDE_IDS)} |->
        CASE id = "Tenth-Slide" -> {59}
          [] id = "Eleventh-Slide" -> {444}
          [] id = "Twelvth-Slide" -> {445}
          [] id = "Thirteenth-Slide" -> {264}
          [] id = "Fourteenth-Slide" -> {241}]

NoFocusId == ""

\* featuresForIds(gj, ids) (index.js 72-81)
featuresForIds(gj, ids) == SelectSeq(gj, LAMBDA objectId : objectId \in ids)

\* A scroll event that flies without the test against lastFocusId of
\* index.js 128.
focusFlightEveryTick(enabled, gj, currentFocusId, last) ==
    IF ~enabled \/ currentFocusId = NoFocusId THEN "none"
    ELSE LET feats == featuresForIds(gj, FOCUS_OBJECTIDS[currentFocusId])
         IN  IF Len(feats) = 0 THEN "none"
             ELSE IF Len(feats) = 1 THEN "flyTo"
             ELSE "flyToBounds"

\* The fly-to of one scroll event (index.js 118-146): "none", "flyTo" for one
\* feature, "flyToBounds" for several.
focusFlight(enabled, gj, currentFocusId, last) ==
    IF ~enabled THEN "none"
    ELSE IF currentFocusId = NoFocusId \/ currentFocusId = last THEN "none"
    ELSE LET feats == featuresForIds(gj, FOCUS_OBJECTIDS[currentFocusId])
         IN  IF Len(feats) = 0 THEN "none"
             ELSE IF Len(feats) = 1 THEN "flyTo"
             ELSE "flyToBounds"

NoScrollEvent ==
    [binIdx |-> -1, currentFocusId |-> NoFocusId, flight |-> "none",
     previous |-> NoFocusId]

ScrollStart ==
    /\ pageState = "start"
    /\ binSlides = 0
    /\ geojsonData = <<>>
    /\ lastFocusId = NoFocusId
    /\ focusEnabled = FALSE
    /\ moveEndHandlers = {}
    /\ scrollEvent = NoScrollEvent
    /\ lastFlight = NoFocusId
    /\ followUp = FALSE


(***************************************************************************)
(* The selection marker (app.js 1027, 2386-2395, 2405-2408).               *)
(***************************************************************************)
\* selectionMarker = null
NoMarker == [exists |-> FALSE, lonLat |-> <<0, 0>>]

\* updateSelectionMarker(lonLat), app.js 2386-2395, for the finite coordinates
\* both handlers pass
updateSelectionMarker(lonLat) == [exists |-> TRUE, lonLat |-> lonLat]

\* The marker a handler leaves (app.js 2280, 2405-2408, 2414): set where the
\* handler came to updateSelectionMarker, removed by a click that found no
\* parcel, and kept by a search that did not come to select.
markerAfter(marker, result) ==
    IF result.selected \/ result.threw THEN updateSelectionMarker(result.lonLat)
    ELSE IF result.kind = "click" THEN NoMarker
    ELSE marker

MarkerStart == selectionMarker = NoMarker

\* The start of the domains below the percentile ranker.
LaterStart ==
    /\ BreakStart
    /\ InsuranceStart
    /\ NormalizeStart
    /\ ParcelStart
    /\ AppStart
    /\ LanguageStart
    /\ MetricStart
    /\ DeckStart
    /\ ScrollStart
    /\ MarkerStart

(***************************************************************************)
(* Point location, checked on its own: a feature is built from a geometry  *)
(* as the loaders build it, and points are located in it.                  *)
(***************************************************************************)
\* Ring vertices lie on the even grid, located points on the whole grid, so that
\* a ring has points strictly inside it, on its boundary and outside it.
VertexCoords == {0, 2, 4}

Vertices == VertexCoords \X VertexCoords

PointCoords == 0..4

Points == PointCoords \X PointCoords

\* (b - a) x (p - a): positive when p is to the left of the edge a -> b.
Cross(a, b, p) ==
    (Lon(b) - Lon(a)) * (Lat(p) - Lat(a)) - (Lat(b) - Lat(a)) * (Lon(p) - Lon(a))

\* Closed triangles (first vertex repeated last, as GeoJSON rings are), in both
\* orientations, each starting at its smallest vertex.
Before(a, b) == Lon(a) < Lon(b) \/ (Lon(a) = Lon(b) /\ Lat(a) < Lat(b))

TriRings ==
    {<<a, b, c, a>> : <<a, b, c>> \in
        {t \in Vertices \X Vertices \X Vertices :
            /\ Before(t[1], t[2])
            /\ Before(t[1], t[3])
            /\ Cross(t[1], t[2], t[3]) # 0}}

\* Closed axis-aligned rectangles.
Rect(x1, y1, x2, y2) ==
    <<<<x1, y1>>, <<x2, y1>>, <<x2, y2>>, <<x1, y2>>, <<x1, y1>>>>

RectRings ==
    {Rect(x1, y1, x2, y2) : <<x1, y1, x2, y2>> \in
        {r \in VertexCoords \X VertexCoords \X VertexCoords \X VertexCoords :
            r[1] < r[3] /\ r[2] < r[4]}}

OuterRings == TriRings \cup RectRings

HoleRings ==
    {Rect(0, 0, 2, 2), Rect(2, 2, 4, 4), Rect(0, 0, 4, 2), Rect(1, 1, 3, 3),
     <<<<0, 0>>, <<4, 0>>, <<0, 4>>, <<0, 0>>>>}

\* The polygons the multi-part geometries are made of.
PolyPool ==
    {<<Rect(0, 0, 4, 4), Rect(1, 1, 3, 3)>>,
     <<Rect(1, 1, 3, 3)>>,
     <<Rect(0, 0, 2, 4), Rect(0, 0, 2, 2)>>,
     <<<<<<0, 0>>, <<4, 0>>, <<0, 4>>, <<0, 0>>>>>>,
     <<Rect(2, 0, 4, 4)>>}

PipStart ==
    /\ feature = makeFeature(Polygon(<<Rect(0, 0, 2, 2)>>))
    /\ point = <<0, 0>>
    /\ located = [done |-> FALSE, exact |-> FALSE, gated |-> FALSE]

PipInit ==
    /\ ZoneStart
    /\ ShelterStart
    /\ RankStart
    /\ LaterStart
    /\ \/ \E outer \in OuterRings : \E holes \in SeqUpTo(HoleRings, MaxHoles) :
              feature = makeFeature(Polygon(<<outer>> \o holes))
       \/ \E polys \in SeqUpTo(PolyPool, MaxPolys) :
              feature = makeFeature(MultiPolygon(polys))
    /\ point = <<0, 0>>
    /\ located = [done |-> FALSE, exact |-> FALSE, gated |-> FALSE]

\* The containment query of a behaviour: the exact test, and the test behind the
\* bounding box.  The test is a pure function of the point and the feature, so
\* one query per behaviour reaches every outcome.
Locate(p) ==
    /\ ~located.done
    /\ point' = p
    /\ located' = [done  |-> TRUE,
                   exact |-> pointInPolygon(p, feature),
                   gated |-> featureContains(p, feature)]
    /\ UNCHANGED <<feature, zoneVars, shelterVars, rankVars, laterVars>>

PipNext == \E p \in Points : Locate(p)

SpecPip == PipInit /\ [][PipNext]_vars

(***************************************************************************)
(* Geometry of a convex ring, by the side of each edge the point is on:    *)
(* the yardstick the ray casting is measured against.  Every ring of the   *)
(* model is convex and closed.                                             *)
(***************************************************************************)
EdgeIndexes(ring) == {i \in 1..(Len(ring) - 1) : ring[i] # ring[i + 1]}

StrictlyInside(p, ring) ==
    \/ \A i \in EdgeIndexes(ring) : Cross(ring[i], ring[i + 1], p) > 0
    \/ \A i \in EdgeIndexes(ring) : Cross(ring[i], ring[i + 1], p) < 0

Between(a, b, c) == (a <= c /\ c <= b) \/ (b <= c /\ c <= a)

OnBoundary(p, ring) ==
    \E i \in EdgeIndexes(ring) :
        /\ Cross(ring[i], ring[i + 1], p) = 0
        /\ Between(Lon(ring[i]), Lon(ring[i + 1]), Lon(p))
        /\ Between(Lat(ring[i]), Lat(ring[i + 1]), Lat(p))

StrictlyOutside(p, ring) == ~StrictlyInside(p, ring) /\ ~OnBoundary(p, ring)

Holes(rings) == {rings[i] : i \in 2..Len(rings)}

OffEveryRing(p, polys) ==
    \A k \in 1..Len(polys) : \A i \in 1..Len(polys[k]) : ~OnBoundary(p, polys[k][i])

\* C3: for a MultiPolygon feature pointInPolygon answers true exactly when some
\* constituent polygon has the point inside its outer ring and in none of its own
\* holes (points on a ring excepted: their side is not specified).
C3_MultiPolygonContainment ==
    (/\ located.done
     /\ feature.geometry.type = "MultiPolygon"
     /\ OffEveryRing(point, feature.geometry.coordinates)) =>
        LET polys == feature.geometry.coordinates
        IN  located.exact <=>
                \E k \in 1..Len(polys) :
                    /\ StrictlyInside(point, polys[k][1])
                    /\ \A h \in Holes(polys[k]) : ~StrictlyInside(point, h)

\* A point in a hole of the first polygon and contained by the second was located.
C3_Witness ==
    /\ located.done
    /\ feature.geometry.type = "MultiPolygon"
    /\ Len(feature.geometry.coordinates) = 2
    /\ LET polys == feature.geometry.coordinates
       IN  /\ StrictlyInside(point, polys[1][1])
           /\ \E h \in Holes(polys[1]) : StrictlyInside(point, h)
           /\ StrictlyInside(point, polys[2][1])
           /\ Holes(polys[2]) = {}
    /\ located.exact

\* C4: the bounding box a loader attaches holds every coordinate of the geometry
\* it was derived from, and the test behind the bounding box answers as
\* pointInPolygon alone answers, for every located point.
C4_BoundsOnlyReject ==
    /\ LET coords == walk(feature.geometry)
       IN  \A i \in 1..Len(coords) : pointWithinBounds(coords[i], feature.bounds)
    /\ located.done => (located.gated <=> located.exact)

\* A point outside the bounding box of the feature was located: the pre-filter
\* rejected it, and so does the exact test.
C4_Witness ==
    /\ located.done
    /\ feature.bounds.ok
    /\ ~pointWithinBounds(point, feature.bounds)
    /\ ~located.gated
    /\ ~located.exact

(***************************************************************************)
(* Zone classification.  loadFloodZones (app.js 1458-1514) fetches the     *)
(* layers one after another; between two fetches the page handles clicks.  *)
(***************************************************************************)
\* The geometries the zone files are made of.
ZonePool ==
    <<Polygon(<<Rect(0, 0, 4, 4)>>),
      Polygon(<<Rect(0, 0, 4, 4), Rect(2, 0, 4, 4)>>),
      MultiPolygon(<<<<Rect(0, 0, 2, 2)>>, <<Rect(2, 2, 4, 4)>>>>)>>

\* In all three geometries, in the first and the third, in the first only, in none.
ZonePoints == {<<1, 1>>, <<3, 3>>, <<3, 1>>, <<5, 5>>}

\* The features loaded so far, over all layers.
RECURSIVE featureCount(_, _)
featureCount(map, k) ==
    IF k > Len(floodZonesConfig) THEN 0
    ELSE Len(layerFeatures(map, floodZonesConfig[k])) + featureCount(map, k + 1)

ZoneInit ==
    /\ ZoneStart
    /\ ShelterStart
    /\ RankStart
    /\ PipStart
    /\ LaterStart

\* One turn of the loop of loadFloodZones whose fetch and parse succeed
\* (app.js 1463-1478): the layer's features, each with its __bounds, are set.
LoadZone(picks) ==
    /\ zoneLoadPos <= Len(floodZonesConfig)
    /\ Len(picks) + featureCount(zoneFeatureMap, 1) <= MaxZoneFeatures
    /\ zoneFeatureMap' =
           [zoneFeatureMap EXCEPT ![floodZonesConfig[zoneLoadPos]] =
               [i \in 1..Len(picks) |-> makeFeature(ZonePool[picks[i]])]]
    /\ zoneLoadPos' = zoneLoadPos + 1
    /\ UNCHANGED <<zoneClick, zoneResult, pipVars, shelterVars, rankVars, laterVars>>

\* One turn whose fetch or parse throws (app.js 1465-1467, 1502-1504): the error
\* is logged and the map gets no entry for the layer, which findFloodZone reads
\* as a layer of no feature.
LoadZoneFails ==
    /\ zoneLoadPos <= Len(floodZonesConfig)
    /\ zoneLoadPos' = zoneLoadPos + 1
    /\ UNCHANGED <<zoneFeatureMap, zoneClick, zoneResult, pipVars, shelterVars, rankVars, laterVars>>

\* findFloodZone called for a point (handleMapClick, app.js 2416).
FindFloodZone(p) ==
    /\ zoneClick' = p
    /\ zoneResult' = findFloodZone(p, zoneFeatureMap)
    /\ UNCHANGED <<zoneFeatureMap, zoneLoadPos, pipVars, shelterVars, rankVars, laterVars>>

ZoneNext ==
    \/ \E picks \in SeqUpTo(1..Len(ZonePool), MaxZoneFeatures) : LoadZone(picks)
    \/ LoadZoneFails
    \/ \E p \in ZonePoints : FindFloodZone(p)

SpecZone == ZoneInit /\ [][ZoneNext]_vars

\* The order of severity the classification is claimed to follow.
ClaimedRank(zoneId) ==
    CASE zoneId = "VE" -> 1 [] zoneId = "AE" -> 2 [] zoneId = "AO" -> 3
      [] zoneId = "A" -> 4 [] zoneId = "X" -> 5

\* The features of the loaded layers that contain the point, each as <<zone, index>>.
Containing(p, map) ==
    {zi \in ZoneIds \X (1..MaxZoneFeatures + 1) :
        /\ zi[2] <= Len(layerFeatures(map, zi[1]))
        /\ pointInPolygon(p, layerFeatures(map, zi[1])[zi[2]])}

Earlier(a, b) ==
    \/ ClaimedRank(a[1]) < ClaimedRank(b[1])
    \/ (a[1] = b[1] /\ a[2] <= b[2])

\* C1: on every snapshot of the zone layers and for every point, findFloodZone
\* returns none exactly when no feature of any layer contains the point, and
\* otherwise the containing feature that comes first in the order VE, AE, AO, A,
\* X and then in the stored order of its layer, tagged with that layer's id.
C1_FirstZoneByPriority ==
    \A p \in ZonePoints :
        LET r == findFloodZone(p, zoneFeatureMap)
            c == Containing(p, zoneFeatureMap)
        IN  /\ r.found <=> c # {}
            /\ r.found =>
                   /\ <<r.zoneId, r.index>> \in c
                   /\ \A o \in c : Earlier(<<r.zoneId, r.index>>, o)

\* A point inside both an AE feature and an X feature was classified AE, with
\* every layer loaded.
C1_Witness ==
    /\ zoneLoadPos > Len(floodZonesConfig)
    /\ zoneResult.found
    /\ zoneResult.zoneId = "AE"
    /\ \E i \in 1..MaxZoneFeatures : <<"X", i>> \in Containing(zoneClick, zoneFeatureMap)
    /\ <<"AE", zoneResult.index>> \in Containing(zoneClick, zoneFeatureMap)
    /\ zoneResult = findFloodZone(zoneClick, zoneFeatureMap)

(***************************************************************************)
(* Nearest shelter.  loadShelters (app.js 1516-1560) runs once, from init; *)
(* the page handles clicks before and after it completes.                  *)
(***************************************************************************)
\* The Name properties of the shelter file, each with whether it names the
\* region-restricted shelter.
NamePool ==
    <<[name |-> WATER_ISLAND_SHELTER_NAME, designated |-> TRUE],
      [name |-> <<" ", "w", "a", "t", "e", "r", " ", "i", "s", "l", "a", "n", "d", " ",
                  "S", "T", "A", "T", "I", "O", "N", " ">>, designated |-> TRUE],
      [name |-> <<"W", "a", "t", "e", "r", " ", "I", "s", "l", "a", "n", "d">>,
       designated |-> FALSE]>>

\* The geometries of the shelter file: the facility layer holds Point and
\* MultiPoint geometries (getShelterLonLat, app.js 1392-1407, reads both).
ShelterGeometryPool ==
    <<[type |-> "Point", coordinates |-> <<0, 0>>],
      [type |-> "Point", coordinates |-> <<1, 0>>],
      [type |-> "Point", coordinates |-> <<2, 2>>],
      [type |-> "MultiPoint", coordinates |-> <<<<0, 0>>, <<1, 0>>>>]>>

\* The k-th shelter of the pool: every name with every geometry.
ShelterPoolSize == Len(NamePool) * Len(ShelterGeometryPool)

NameIndex(k) == ((k - 1) % Len(NamePool)) + 1

GeometryIndex(k) == ((k - 1) \div Len(NamePool)) + 1

Shelter(k) ==
    [name |-> NamePool[NameIndex(k)].name,
     geometry |-> ShelterGeometryPool[GeometryIndex(k)],
     pool |-> k]

\* The Tax_Legal_ properties of the parcel passed, each with whether it places
\* the parcel on Water Island.  The first stands for a parcel without the
\* property and for no parcel.
LegalPool ==
    <<[legal |-> NoLegal, waterIsland |-> FALSE],
      [legal |-> [isString |-> TRUE,
                  text |-> <<"L", "O", "T", " ", "5", " ", "W", "A", "T", "E", "R", " ",
                             "I", "S", "L", "A", "N", "D">>], waterIsland |-> TRUE],
      [legal |-> [isString |-> TRUE,
                  text |-> <<"E", "s", "t", ".", " ", "W", "a", "t", "e", "r", " ",
                             "I", "s", "l", "a", "n", "d", " ", "7">>], waterIsland |-> TRUE],
      [legal |-> [isString |-> TRUE,
                  text |-> <<"E", "s", "t", "a", "t", "e", " ", "T", "h", "o", "m", "a", "s">>],
       waterIsland |-> FALSE]>>

ShelterPoints == {<<0, 0>>, <<2, 1>>}

ShelterInit ==
    /\ ShelterStart
    /\ ZoneStart
    /\ RankStart
    /\ PipStart
    /\ LaterStart

\* loadShelters, fetch and parse succeeding (app.js 1518-1526).
LoadShelters(picks) ==
    /\ shelterLoad = "pending"
    /\ shelterFeatures' = [i \in 1..Len(picks) |-> Shelter(picks[i])]
    /\ shelterLoad' = "done"
    /\ UNCHANGED <<shelterQuery, shelterResult, pipVars, zoneVars, rankVars, laterVars>>

\* loadShelters, fetch or parse throwing (app.js 1519-1521, 1556-1559).
LoadSheltersFails ==
    /\ shelterLoad = "pending"
    /\ shelterLoad' = "failed"
    /\ UNCHANGED <<shelterFeatures, shelterQuery, shelterResult, pipVars, zoneVars, rankVars, laterVars>>

\* findNearestShelter called for a point and a parcel (handleMapClick, app.js 2417).
FindNearestShelter(p, l) ==
    /\ shelterQuery' = [point |-> p, legal |-> LegalPool[l].legal]
    /\ shelterResult' = findNearestShelter(p, LegalPool[l].legal, shelterFeatures)
    /\ UNCHANGED <<shelterFeatures, shelterLoad, pipVars, zoneVars, rankVars, laterVars>>

ShelterNext ==
    \/ \E picks \in SeqUpTo(1..ShelterPoolSize, MaxShelters) : LoadShelters(picks)
    \/ LoadSheltersFails
    \/ \E p \in ShelterPoints : \E l \in 1..Len(LegalPool) : FindNearestShelter(p, l)

SpecShelter == ShelterInit /\ [][ShelterNext]_vars

\* The distance in metres from a point to the representative coordinate of a
\* shelter: its coordinate, the first one of a MultiPoint.
TrueDistance(p, shelter) ==
    LET c == IF shelter.geometry.type = "Point" THEN shelter.geometry.coordinates
             ELSE shelter.geometry.coordinates[1]
        dLon == IF Lon(c) >= Lon(p) THEN Lon(c) - Lon(p) ELSE Lon(p) - Lon(c)
    IN  HaversineTable[dLon + 1][Lat(p) + 1][Lat(c) + 1]

Designated(shelter) == NamePool[NameIndex(shelter.pool)].designated

\* The shelters of the general scan: all but the region-restricted one.
Scanned(shelters) == {i \in 1..Len(shelters) : ~Designated(shelters[i])}

\* The claim of C5 about one query.
NearestOfScan(p, l, shelters) ==
    LET r == findNearestShelter(p, LegalPool[l].legal, shelters)
    IN  ~LegalPool[l].waterIsland =>
            /\ r.found <=> Scanned(shelters) # {}
            /\ r.found =>
                   /\ r.index \in Scanned(shelters)
                   /\ r.distanceKm = Num(TrueDistance(p, shelters[r.index]))
                   /\ \A i \in Scanned(shelters) :
                          TrueDistance(p, shelters[i]) >= TrueDistance(p, shelters[r.index])

\* C5: when the parcel does not match the override predicate, findNearestShelter
\* returns a scanned facility at the minimum distance over the scanned
\* facilities, with that distance, whatever the order of the list.
C5_NearestOfScan ==
    \A p \in ShelterPoints : \A l \in 1..Len(LegalPool) :
        NearestOfScan(p, l, shelterFeatures)

\* The part of C5 the code keeps: the same, over the lists of Point shelters.
C5_NearestOfPointShelters ==
    (\A i \in 1..Len(shelterFeatures) : shelterFeatures[i].geometry.type = "Point") =>
        \A p \in ShelterPoints : \A l \in 1..Len(LegalPool) :
            NearestOfScan(p, l, shelterFeatures)

\* C6: when the parcel's legal description contains WATER ISLAND in any case and
\* the list holds the designated facility, findNearestShelter returns a
\* designated facility, wherever it is in the list and however far it is.
C6_OverrideReturnsDesignated ==
    \A p \in ShelterPoints : \A l \in 1..Len(LegalPool) :
        LET r == findNearestShelter(p, LegalPool[l].legal, shelterFeatures)
        IN  (/\ LegalPool[l].waterIsland
             /\ \E i \in 1..Len(shelterFeatures) : Designated(shelterFeatures[i]))
            => (r.found /\ Designated(shelterFeatures[r.index]))

\* A Water Island parcel was answered with the designated facility, which is
\* first in the list and strictly farther than the other facility.
C6_Witness ==
    /\ shelterLoad = "done"
    /\ Len(shelterFeatures) = 2
    /\ isWaterIslandParcel(shelterQuery.legal)
    /\ shelterResult = findNearestShelter(shelterQuery.point, shelterQuery.legal, shelterFeatures)
    /\ shelterResult.found
    /\ shelterResult.index = 1
    /\ Designated(shelterFeatures[1])
    /\ ~Designated(shelterFeatures[2])
    /\ TrueDistance(shelterQuery.point, shelterFeatures[2])
           < TrueDistance(shelterQuery.point, shelterFeatures[1])

\* C7: when the parcel does not match the override predicate, findNearestShelter
\* never returns the region-restricted facility, and returns none when the list
\* holds no other facility.
C7_RestrictedNeverFallback ==
    \A p \in ShelterPoints : \A l \in 1..Len(LegalPool) :
        LET r == findNearestShelter(p, LegalPool[l].legal, shelterFeatures)
        IN  ~LegalPool[l].waterIsland =>
                /\ r.found => ~Designated(shelterFeatures[r.index])
                /\ Scanned(shelterFeatures) = {} => ~r.found

\* A parcel outside Water Island was answered with the farther facility, the
\* restricted one being strictly closer.
C7_Witness ==
    /\ shelterLoad = "done"
    /\ Len(shelterFeatures) = 2
    /\ ~isWaterIslandParcel(shelterQuery.legal)
    /\ shelterResult = findNearestShelter(shelterQuery.point, shelterQuery.legal, shelterFeatures)
    /\ shelterResult.found
    /\ \E i \in 1..2 :
           /\ Designated(shelterFeatures[i])
           /\ TrueDistance(shelterQuery.point, shelterFeatures[i])
                  < TrueDistance(shelterQuery.point, shelterFeatures[shelterResult.index])

(***************************************************************************)
(* The percentile ranker, checked on its own: a ranker is built from a     *)
(* distribution (loadParcelValues, app.js 1724-1728) and called (app.js    *)
(* 1730-1737).                                                             *)
(***************************************************************************)
Values == {Num(v) : v \in 0..MaxValue} \cup {NaN}

Queries == {Num(v) : v \in -1..(MaxValue + 1)} \cup {NaN}

RankInit ==
    /\ RankStart
    /\ PipStart
    /\ ZoneStart
    /\ ShelterStart
    /\ LaterStart

CreateRanker(values) ==
    /\ ranker.kind = "none"
    /\ rankValues' = values
    /\ ranker' = createPercentileRanker(values)
    /\ UNCHANGED <<rankQuery, rankResult, pipVars, zoneVars, shelterVars, laterVars>>

CallRanker(q) ==
    /\ ranker.kind # "none"
    /\ rankQuery' = q
    /\ rankResult' = callRanker(ranker, q)
    /\ UNCHANGED <<rankValues, ranker, pipVars, zoneVars, shelterVars, laterVars>>

RankNext ==
    \/ \E values \in SeqUpTo(Values, MaxLen) : CreateRanker(values)
    \/ \E q \in Queries : CallRanker(q)

SpecRank == RankInit /\ [][RankNext]_vars

\* The finite values of the distribution, counted without sorting it.
FiniteAt == {i \in 1..Len(rankValues) : ~rankValues[i].nan}

Count == Cardinality(FiniteAt)

Below(v) == Cardinality({i \in FiniteAt : rankValues[i].v < v})

UpTo(v) == Cardinality({i \in FiniteAt : rankValues[i].v <= v})

Stored(v) == \E i \in FiniteAt : rankValues[i].v = v

Distinct == Cardinality({rankValues[i].v : i \in FiniteAt})

Least == CHOOSE m \in {rankValues[i].v : i \in FiniteAt} :
             \A i \in FiniteAt : m <= rankValues[i].v

Greatest == CHOOSE m \in {rankValues[i].v : i \in FiniteAt} :
                \A i \in FiniteAt : m >= rankValues[i].v

\* The rank is the rational n / d.
IsRank(r, n, d) == ~r.isNull /\ r.n * d = n * r.d

\* In the ascending copy the occurrences of a stored v are at the indices
\* Below(v) .. UpTo(v) - 1, whose mean is (Below(v) + UpTo(v) - 1) / 2.
MeanIndexRank(v) == IsRank(rankResult, Below(v) + UpTo(v) - 1, 2 * (Count - 1))

\* C8 as claimed: with two distinct finite values or more, the rank of a query
\* equal to stored values is the mean of the indices of all its occurrences in
\* the ascending copy, divided by count - 1: for every stored value, the ones
\* tied at the minimum included.
C8_MeanIndexOfEveryMatch ==
    (/\ ranker.kind # "none"
     /\ Distinct >= 2
     /\ ~rankQuery.nan
     /\ Stored(rankQuery.v))
    => MeanIndexRank(rankQuery.v)

\* C8 as amended: the same for a stored value strictly between the minimum and
\* the maximum, and for the minimum and the maximum when they occur once; a
\* query equal to the minimum ranks 0 and one equal to the maximum ranks 1,
\* however often they occur.
C8_MeanIndexOfInnerMatch ==
    (/\ ranker.kind # "none"
     /\ Distinct >= 2
     /\ ~rankQuery.nan
     /\ Stored(rankQuery.v))
    => /\ (\/ (Least < rankQuery.v /\ rankQuery.v < Greatest)
           \/ UpTo(rankQuery.v) - Below(rankQuery.v) = 1)
          => MeanIndexRank(rankQuery.v)
       /\ rankQuery.v = Least => IsRank(rankResult, 0, 1)
       /\ rankQuery.v = Greatest => IsRank(rankResult, 1, 1)

\* A value stored twice, strictly between the minimum and the maximum of four
\* values, was ranked 1/2: [10, 20, 20, 30] and 20, up to the scale.
C8_Witness ==
    /\ Count = 4
    /\ ~rankQuery.nan
    /\ Least < rankQuery.v
    /\ rankQuery.v < Greatest
    /\ UpTo(rankQuery.v) - Below(rankQuery.v) = 2
    /\ Below(rankQuery.v) = 1
    /\ IsRank(rankResult, 1, 2)

\* The stored values next to a query that is not stored.
PrevValue(v) == CHOOSE m \in {rankValues[i].v : i \in FiniteAt} :
                    m < v /\ \A i \in FiniteAt : rankValues[i].v < v => rankValues[i].v <= m

NextValue(v) == CHOOSE m \in {rankValues[i].v : i \in FiniteAt} :
                    m > v /\ \A i \in FiniteAt : rankValues[i].v > v => rankValues[i].v >= m

\* C9: with two distinct finite values or more, a query below the minimum ranks
\* 0, a query at or above the maximum ranks 1, and a query strictly between the
\* adjacent stored values prev, at index i - 1, and next, at index i, ranks
\* ((i - 1) + (value - prev) / (next - prev)) / (count - 1).
C9_EndsAndInterpolation ==
    (/\ ranker.kind # "none"
     /\ Distinct >= 2
     /\ ~rankQuery.nan)
    => LET v == rankQuery.v
       IN  /\ v < Least => IsRank(rankResult, 0, 1)
           /\ v >= Greatest => IsRank(rankResult, 1, 1)
           /\ (Least < v /\ v < Greatest /\ ~Stored(v)) =>
                  LET prev == PrevValue(v)
                      next == NextValue(v)
                      i == Below(v)
                  IN  IsRank(rankResult,
                             (i - 1) * (next - prev) + (v - prev),
                             (next - prev) * (Count - 1))

\* A query half way between the third and the fourth of four values, the second
\* and third being equal, was ranked 2.5 / 3: [10, 20, 20, 30] and 25, up to the
\* scale.
C9_Witness ==
    /\ Count = 4
    /\ ~rankQuery.nan
    /\ ~Stored(rankQuery.v)
    /\ Below(rankQuery.v) = 3
    /\ Distinct = 3
    /\ NextValue(rankQuery.v) - rankQuery.v = rankQuery.v - PrevValue(rankQuery.v)
    /\ IsRank(rankResult, 5, 6)

\* C10: a ranker built from no finite value returns none for every query; one
\* built from a single distinct finite value returns 0.5 for every finite query
\* and none for every other; the non-finite values of the distribution are
\* ignored; and every ranker returns none for a non-finite query.
C10_DegenerateRankers ==
    ranker.kind # "none" =>
        /\ Count = 0 => rankResult = NullRank
        /\ (Distinct = 1 /\ ~rankQuery.nan) => IsRank(rankResult, 1, 2)
        /\ rankQuery.nan => rankResult = NullRank
        /\ Len(ranker.sorted) = Count
        /\ \A v \in 0..MaxValue :
               Cardinality({k \in 1..Len(ranker.sorted) : ranker.sorted[k] = v})
                   = UpTo(v) - Below(v)

\* A distribution of one finite value, held twice, and a non-finite value was
\* built into a ranker, which ranked a finite query 0.5.
C10_Witness ==
    /\ Len(rankValues) = 3
    /\ Count = 2
    /\ Distinct = 1
    /\ ~rankQuery.nan
    /\ rankQuery.v # Least
    /\ IsRank(rankResult, 1, 2)

(***************************************************************************)
(* The quantile breaks, checked on their own: loadParcelValues computes    *)
(* parcelStats and parcelBreaks from the parcels' values per square metre  *)
(* (app.js 1652-1670).                                                     *)
(***************************************************************************)
BreakInputs == {NaN, Num(0), Num(1), Num(2), Num(PlausibleMax), Num(PlausibleMax + 1)}

EarlierStart ==
    /\ PipStart
    /\ ZoneStart
    /\ ShelterStart
    /\ RankStart

BreakInit ==
    /\ EarlierStart
    /\ LaterStart

\* One turn of parcels.map (app.js 1582-1624): the parcel's valuePerSqMeter is
\* computed and kept in its properties.
MapParcel(perSqMeter) ==
    /\ ~breaksBuilt
    /\ Len(valuePerSqMeter) < MaxParcelValues
    /\ valuePerSqMeter' = Append(valuePerSqMeter, perSqMeter)
    /\ UNCHANGED <<breaksBuilt, parcelStats, parcelBreaks, notBreakVars>>

\* app.js 1652-1670, once every parcel is mapped.
BuildBreaks ==
    /\ ~breaksBuilt
    /\ breaksBuilt' = TRUE
    /\ parcelStats' = buildBreaks(valuePerSqMeter).stats
    /\ parcelBreaks' = buildBreaks(valuePerSqMeter).breaks
    /\ UNCHANGED <<valuePerSqMeter, notBreakVars>>

BreakNext ==
    \/ \E perSqMeter \in BreakInputs : MapParcel(perSqMeter)
    \/ BuildBreaks

SpecBreaks == BreakInit /\ [][BreakNext]_vars

\* The source distribution, counted without filtering or sorting a list: the
\* positions of the values that are numbers from 0.1 to 5000.
BreakSource ==
    {i \in 1..Len(valuePerSqMeter) :
        /\ ~valuePerSqMeter[i].nan
        /\ valuePerSqMeter[i].v >= 1
        /\ valuePerSqMeter[i].v <= 50000}

BreakCount == Cardinality(BreakSource)

BreakBelow(v) == Cardinality({i \in BreakSource : valuePerSqMeter[i].v < v})

BreakUpTo(v) == Cardinality({i \in BreakSource : valuePerSqMeter[i].v <= v})

\* v is the value at index i, counted from 0, of the distribution in ascending order.
SortedValueAt(v, i) == BreakBelow(v) <= i /\ i < BreakUpTo(v)

FourBreaks ==
    /\ Len(parcelBreaks) = 4
    /\ \A k \in 1..4 : SortedValueAt(parcelBreaks[k], (k * (BreakCount - 1)) \div 5)
    /\ \A k \in 1..3 : parcelBreaks[k] <= parcelBreaks[k + 1]
    /\ \A k \in 1..4 : \E i \in BreakSource : valuePerSqMeter[i].v = parcelBreaks[k]

\* C11, as stated: the breaks computed over any distribution are exactly 4
\* thresholds, the k-th being the sorted value at index floor(k/5 * (n - 1)),
\* non-decreasing and each present in the source distribution.
C11_FourBreaksOfAnyDistribution == breaksBuilt => FourBreaks

\* C11, amended: over a distribution that holds at least one value in the
\* plausible range the breaks are exactly 4 thresholds, the k-th being the sorted
\* value at index floor(k/5 * (n - 1)), non-decreasing and each present in the
\* distribution; over a distribution that holds none, there are no breaks and no
\* statistics.
C11_FourBreaksOfNonEmptyDistribution ==
    breaksBuilt =>
        /\ BreakCount > 0 => FourBreaks /\ ~parcelStats.isNull
        /\ BreakCount = 0 => parcelBreaks = <<>> /\ parcelStats.isNull

\* Four plausible values among implausible ones, and breaks that differ.
C11_Witness ==
    /\ breaksBuilt
    /\ BreakCount >= 4
    /\ BreakCount < Len(valuePerSqMeter)
    /\ Len(parcelBreaks) = 4
    /\ Cardinality({parcelBreaks[k] : k \in 1..4}) >= 3
    /\ \E i \in 1..(Len(valuePerSqMeter) - 1) :
           /\ i \in BreakSource /\ (i + 1) \in BreakSource
           /\ valuePerSqMeter[i].v > valuePerSqMeter[i + 1].v

(***************************************************************************)
(* The premium estimate, checked on its own: renderInsuranceInfo is called *)
(* with a zone result and a parcel result (app.js 831, 2298, 2421).        *)
(***************************************************************************)
\* Total values at, below and above the points where each rate meets a clamp:
\* 450 / 0.018 = 25000, 450 / 0.015 = 30000, 450 / 0.012 = 37500,
\* 450 / 0.006 = 75000, 450 / 0.004 = 112500, 7200 / 0.018 = 400000,
\* 7200 / 0.015 = 480000, 7200 / 0.012 = 600000, 7200 / 0.006 = 1200000,
\* 7200 / 0.004 = 1800000.
TotalValues ==
    {NaN} \cup {Num(v) : v \in {-1, 0, 1, 25000, 25001, 30000, 37500, 75000, 112500,
                                250000, 250001, 400000, 480000, 600000, 1000000,
                                1200000, 1800000, 1800001}}

ZoneResults == {NoZone} \cup {[found |-> TRUE, zoneId |-> z, index |-> 1] : z \in ZoneIds}

ParcelResults == {NoParcel} \cup {[hasFeature |-> TRUE, totalValue |-> v] : v \in TotalValues}

InsuranceInit ==
    /\ EarlierStart
    /\ LaterStart

RenderInsuranceInfo(zoneFound, parcelResult) ==
    /\ insuranceInput' = [zoneResult |-> zoneFound, parcelResult |-> parcelResult]
    /\ insuranceResult' = renderInsuranceInfo(zoneFound, parcelResult)
    /\ UNCHANGED notInsuranceVars

InsuranceNext ==
    \E zoneFound \in ZoneResults : \E parcelResult \in ParcelResults :
        RenderInsuranceInfo(zoneFound, parcelResult)

SpecInsurance == InsuranceInit /\ [][InsuranceNext]_vars

\* The rates of the claim, in thousandths.
ClaimedRate(zoneFound) ==
    IF ~zoneFound.found THEN 4
    ELSE CASE zoneFound.zoneId = "VE" -> 18
           [] zoneFound.zoneId = "AE" -> 15
           [] zoneFound.zoneId = "AO" -> 12
           [] zoneFound.zoneId = "A"  -> 12
           [] zoneFound.zoneId = "X"  -> 6

\* min(max(totalValue * rate, 450), 7200) and min(totalValue, 250000), the
\* premium in thousandths.
ClaimedEstimate(zoneFound, totalValue) ==
    LET product == totalValue * ClaimedRate(zoneFound)
        raised  == IF product < 450000 THEN 450000 ELSE product
    IN  /\ insuranceResult.shown
        /\ insuranceResult.premium = (IF raised > 7200000 THEN 7200000 ELSE raised)
        /\ insuranceResult.premium >= 450000
        /\ insuranceResult.premium <= 7200000
        /\ insuranceResult.coverage = (IF totalValue > 250000 THEN 250000 ELSE totalValue)

\* C12, as stated: for every zone id and every totalValue of a parcel the
\* estimate is premium = min(max(totalValue * rate, 450), 7200) and
\* recommendedCoverage = min(totalValue, 250000).
C12_EstimateOfEveryValue ==
    (insuranceInput.parcelResult.hasFeature /\ ~insuranceInput.parcelResult.totalValue.nan)
        => ClaimedEstimate(insuranceInput.zoneResult, insuranceInput.parcelResult.totalValue.v)

\* C12, amended: for every zone id and every parcel whose totalValue is a number
\* above 0 the estimate is premium = min(max(totalValue * rate, 450), 7200), which
\* lies in [450, 7200], and recommendedCoverage = min(totalValue, 250000); for no
\* parcel, and for a totalValue that is not a number or is 0 or less, no estimate
\* is shown.
C12_EstimateOfPositiveValue ==
    LET parcelResult == insuranceInput.parcelResult
    IN  IF parcelResult.hasFeature /\ ~parcelResult.totalValue.nan
           /\ parcelResult.totalValue.v > 0
        THEN ClaimedEstimate(insuranceInput.zoneResult, parcelResult.totalValue.v)
        ELSE ~insuranceResult.shown

\* AE with totalValue 1,000,000: premium 7200, coverage 250,000.
C12_Witness ==
    /\ insuranceInput.zoneResult.found
    /\ insuranceInput.zoneResult.zoneId = "AE"
    /\ insuranceInput.parcelResult.totalValue = Num(1000000)
    /\ insuranceResult = [shown |-> TRUE, premium |-> 7200000, coverage |-> 250000]

(***************************************************************************)
(* Coordinate normalization, checked on its own: a loader normalizes the   *)
(* feature collection it fetched and stores the layer (app.js 1523-1525).  *)
(***************************************************************************)
\* Reference system declarations, each with what it is: a canonical system
\* (no declaration, EPSG:4326, a CRS84 alias), and a system the normalizer has
\* projection parameters for.
CrsPool ==
    <<[crs |-> NoCrs, canonical |-> TRUE, recognized |-> TRUE],
      \* "EPSG:4326"
      [crs |-> [declared |-> TRUE,
                name |-> <<"E", "P", "S", "G", ":", "4", "3", "2", "6">>],
       canonical |-> TRUE, recognized |-> TRUE],
      \* "urn:ogc:def:crs:EPSG::4326"
      [crs |-> [declared |-> TRUE,
                name |-> <<"u", "r", "n", ":", "o", "g", "c", ":", "d", "e", "f", ":",
                     "c", "r", "s", ":", "E", "P", "S", "G", ":", ":", "4", "3",
                     "2", "6">>],
       canonical |-> TRUE, recognized |-> TRUE],
      \* "urn:ogc:def:crs:OGC:1.3:CRS84"
      [crs |-> [declared |-> TRUE,
                name |-> <<"u", "r", "n", ":", "o", "g", "c", ":", "d", "e", "f", ":",
                     "c", "r", "s", ":", "O", "G", "C", ":", "1", ".", "3", ":",
                     "C", "R", "S", "8", "4">>],
       canonical |-> TRUE, recognized |-> TRUE],
      \* "CRS:84"
      [crs |-> [declared |-> TRUE,
                name |-> <<"C", "R", "S", ":", "8", "4">>],
       canonical |-> TRUE, recognized |-> TRUE],
      \* "epsg/32161"
      [crs |-> [declared |-> TRUE,
                name |-> <<"e", "p", "s", "g", "/", "3", "2", "1", "6", "1">>],
       canonical |-> FALSE, recognized |-> TRUE],
      \* "EPSG:2263"
      [crs |-> [declared |-> TRUE,
                name |-> <<"E", "P", "S", "G", ":", "2", "2", "6", "3">>],
       canonical |-> FALSE, recognized |-> FALSE],
      \* "local grid"
      [crs |-> [declared |-> TRUE,
                name |-> <<"l", "o", "c", "a", "l", " ", "g", "r", "i", "d">>],
       canonical |-> FALSE, recognized |-> FALSE]>>

\* Geometries of the six types, one Point with an altitude, no geometry, and a
\* geometry of another type.
NormGeometryPool ==
    <<[type |-> "Point", coordinates |-> <<1, 2>>],
      [type |-> "Point", coordinates |-> <<1, 2, 7>>],
      [type |-> "MultiPoint", coordinates |-> <<<<0, 0>>, <<1, 2>>>>],
      [type |-> "LineString", coordinates |-> <<<<0, 0>>, <<2, 2>>>>],
      [type |-> "MultiLineString",
       coordinates |-> <<<<<<0, 0>>, <<2, 2>>>>, <<<<1, 0>>, <<1, 2>>>>>>],
      Polygon(<<Rect(0, 0, 4, 4), Rect(1, 1, 2, 2)>>),
      MultiPolygon(<<<<Rect(0, 0, 2, 2)>>, <<Rect(2, 2, 4, 4)>>>>),
      NullGeometry,
      [type |-> "GeometryCollection", coordinates |-> <<>>]>>

FileFeature(i, g) == [id |-> i, pool |-> g, geometry |-> NormGeometryPool[g]]

NormalizeInit ==
    /\ EarlierStart
    /\ LaterStart

\* The loader runs once (init, app.js 2480).
NormalizeFeatures(c, picks) ==
    LET collection == [crs |-> c, features |-> [i \in 1..Len(picks) |-> FileFeature(i, picks[i])]]
        parsed == [crs |-> CrsPool[c].crs, features |-> collection.features]
    IN  /\ layerLoad.state = "pending"
        /\ geojson' = collection
        /\ normalized' = normalizeFeatures(parsed)
        /\ layerLoad' = storeLayer(parsed)
        /\ UNCHANGED notNormalizeVars

NormalizeNext ==
    \E c \in 1..Len(CrsPool) :
        \E picks \in SeqUpTo(1..Len(NormGeometryPool), MaxFileFeatures) :
            NormalizeFeatures(c, picks)

SpecNormalize == NormalizeInit /\ [][NormalizeNext]_vars

Normalized == layerLoad.state # "pending"

\* The output feature is the input feature with the input's coordinates: the
\* geometry as it is in the file, the pair alone of a position with an altitude.
SameCoordinates(out, in) ==
    /\ out.id = in.id
    /\ out.geometry.type = in.geometry.type
    /\ IF in.geometry.type = "Point" /\ Len(in.geometry.coordinates) = 3
       THEN out.geometry.coordinates
                = <<in.geometry.coordinates[1], in.geometry.coordinates[2]>>
       ELSE out.geometry = NormGeometryPool[in.pool]

\* C13: for a feature collection whose declared reference system is canonical
\* normalizeFeatures returns every feature, in order, with every coordinate
\* exactly equal to the input's, for all six geometry types.
C13_CanonicalIsIdentity ==
    (Normalized /\ CrsPool[geojson.crs].canonical) =>
        /\ ~normalized.threw
        /\ Len(normalized.features) = Len(geojson.features)
        /\ \A i \in 1..Len(geojson.features) :
               SameCoordinates(normalized.features[i], geojson.features[i])

\* A declared canonical system, and a MultiPolygon and a Polygon that came through.
C13_Witness ==
    /\ Normalized
    /\ CrsPool[geojson.crs].canonical
    /\ CrsPool[geojson.crs].crs.declared
    /\ Len(geojson.features) = 2
    /\ geojson.features[1].geometry.type = "MultiPolygon"
    /\ geojson.features[2].geometry.type = "Polygon"
    /\ normalized.features[1].geometry = geojson.features[1].geometry
    /\ normalized.features[2].geometry = geojson.features[2].geometry

\* The features of the file that have a geometry.
WithGeometry == {i \in 1..Len(geojson.features) : geojson.features[i].pool # 8}

\* C14, as stated: for a feature collection that declares a reference system
\* the normalizer does not recognize the load does not fail, and the layer's
\* features are loaded with their coordinates unchanged.
C14_UnrecognizedPassesThrough ==
    (Normalized /\ ~CrsPool[geojson.crs].recognized) =>
        /\ layerLoad.state = "loaded"
        /\ Len(layerLoad.features) = Cardinality(WithGeometry)
        /\ \A k \in 1..Len(layerLoad.features) :
               SameCoordinates(layerLoad.features[k], geojson.features[layerLoad.features[k].id])

\* What holds of C14: a declared name that holds no EPSG code passes through.
C14_NoCodePassesThrough ==
    (Normalized /\ ~CrsPool[geojson.crs].recognized
       /\ matchEpsg(CrsPool[geojson.crs].crs.name) = <<>>) =>
        /\ layerLoad.state = "loaded"
        /\ Len(layerLoad.features) = Cardinality(WithGeometry)
        /\ \A k \in 1..Len(layerLoad.features) :
               SameCoordinates(layerLoad.features[k], geojson.features[layerLoad.features[k].id])

(***************************************************************************)
(* The parcel layer, checked on its own: the file is fetched and loaded    *)
(* once (init, app.js 2472), and the map is clicked and parcels are        *)
(* searched by name before and after.                                      *)
(***************************************************************************)
\* Parcel names, and the search text " lot ".
LOT7 == <<"L", "o", "t", " ", "7">>

LOT70 == <<"L", "o", "t", " ", "7", "0">>

DOCK == <<"D", "o", "c", "k">>

REEF == <<"R", "e", "e", "f">>

PIER == <<"P", "i", "e", "r">>

ASKLOT == <<" ", "l", "o", "t", " ">>

CAY == <<"C", "a", "y">>

AYR1 == <<"A", "y", "r", " ", "1">>

ASKAY == <<"a", "Y">>

ASKY == <<"y">>

\* Parcels of a file.  absent: the feature has no geometry; malformed: it has a
\* geometry without any coordinate.
ParcelPool ==
    <<[Name |-> LOT7, geometry |-> Polygon(<<Rect(0, 0, 2, 2)>>),
       totalValue |-> 100, area |-> 10, fallback |-> NoFallback,
       absent |-> FALSE, malformed |-> FALSE],
      [Name |-> LOT70,
       geometry |-> MultiPolygon(<<<<Rect(2, 0, 4, 2)>>, <<Rect(2, 2, 4, 4)>>>>),
       totalValue |-> 40, area |-> 20, fallback |-> NoFallback,
       absent |-> FALSE, malformed |-> FALSE],
      [Name |-> DOCK, geometry |-> NullGeometry,
       totalValue |-> 30, area |-> 0, fallback |-> NoFallback,
       absent |-> TRUE, malformed |-> FALSE],
      [Name |-> REEF, geometry |-> Polygon(<<<<>>>>),
       totalValue |-> 30, area |-> 10, fallback |-> NoFallback,
       absent |-> FALSE, malformed |-> TRUE],
      [Name |-> PIER, geometry |-> Polygon(<<>>),
       totalValue |-> 30, area |-> 10, fallback |-> NoFallback,
       absent |-> FALSE, malformed |-> TRUE],
      [Name |-> <<>>, geometry |-> Polygon(<<<<>>>>),
       totalValue |-> 0, area |-> 10, fallback |-> [has |-> TRUE, lon |-> 1, lat |-> 1],
       absent |-> FALSE, malformed |-> TRUE],
      [Name |-> CAY, geometry |-> Polygon(<<Rect(0, 0, 5, 5)>>),
       totalValue |-> 100, area |-> 10, fallback |-> NoFallback,
       absent |-> FALSE, malformed |-> FALSE],
      [Name |-> AYR1, geometry |-> Polygon(<<Rect(6, 6, 8, 8)>>),
       totalValue |-> 60, area |-> 10, fallback |-> NoFallback,
       absent |-> FALSE, malformed |-> FALSE]>>

ParcelFeature(i, k) ==
    [id |-> i, pool |-> k, geometry |-> ParcelPool[k].geometry, Name |-> ParcelPool[k].Name,
     totalValue |-> ParcelPool[k].totalValue, area |-> ParcelPool[k].area,
     fallback |-> ParcelPool[k].fallback]

\* The reference systems of a parcel file: none declared, and "EPSG:2263".
ParcelCrs == {1, 7}

ParcelPoints == {<<1, 1>>, <<3, 3>>, <<5, 5>>}

SearchTexts == {LOT7, ASKLOT, DOCK, REEF, PIER, ASKAY, ASKY, <<" ">>}

ParcelInit ==
    /\ EarlierStart
    /\ LaterStart

\* The parcel state of the variables.
parcelState ==
    ParcelState(parcelCollection, parcelBounds, parcelCentroid, parcelStats, parcelBreaks)

\* loadParcelValues whose fetch and parse succeed (app.js 1564-1568), to its end
\* or to its catch.
LoadParcelValues(c, picks) ==
    LET file  == [crs |-> CrsPool[c].crs,
                  features |-> [i \in 1..Len(picks) |-> ParcelFeature(i, picks[i])]]
        after == loadParcelValues(parcelState, file)
    IN  /\ parcelLoad.state = "pending"
        /\ parcelCollection' = after.parcelCollection
        /\ parcelBounds' = after.parcelBounds
        /\ parcelCentroid' = after.parcelCentroid
        /\ parcelStats' = after.parcelStats
        /\ parcelBreaks' = after.parcelBreaks
        /\ parcelLoad' = [state |-> IF parcelLoadThrows(file) THEN "failed" ELSE "loaded",
                          file |-> file]
        /\ UNCHANGED <<parcelQuery, parcelFound, valuePerSqMeter, breaksBuilt,
                       earlierVars, insuranceVars, normalizeVars, appVars, languageVars,
                       metricVars, deckVars, scrollVars, markerVars>>

\* loadParcelValues whose fetch or parse throws (app.js 1564-1568, 1739-1742).
LoadParcelValuesFails ==
    /\ parcelLoad.state = "pending"
    /\ parcelLoad' = [state |-> "failed", file |-> NoFile]
    /\ UNCHANGED <<parcelCollection, parcelBounds, parcelCentroid, parcelQuery, parcelFound,
                   notParcelVars>>

\* findParcelAtPoint of handleMapClick (app.js 2402).
FindParcelAtPoint(p) ==
    /\ parcelQuery' = [kind |-> "point", point |-> p, text |-> <<>>, asked |-> parcelLoad.state]
    /\ parcelFound' = findParcelAtPoint(p, parcelCollection)
    /\ UNCHANGED <<parcelCollection, parcelBounds, parcelCentroid, parcelLoad, notParcelVars>>

\* handleParcelSearch (app.js 2308-2323).
HandleParcelSearch(text) ==
    /\ parcelQuery' = [kind |-> "name", point |-> <<0, 0>>, text |-> text,
                       asked |-> parcelLoad.state]
    /\ parcelFound' = handleParcelSearch(text, parcelCollection)
    /\ UNCHANGED <<parcelCollection, parcelBounds, parcelCentroid, parcelLoad, notParcelVars>>

ParcelNext ==
    \/ \E c \in ParcelCrs : \E picks \in SeqUpTo(1..Len(ParcelPool), MaxParcels) :
           LoadParcelValues(c, picks)
    \/ LoadParcelValuesFails
    \/ \E p \in ParcelPoints : FindParcelAtPoint(p)
    \/ \E text \in SearchTexts : HandleParcelSearch(text)

SpecParcel == ParcelInit /\ [][ParcelNext]_vars

\* The parcel state before the load.
ParcelStateAtStart ==
    ParcelState(NullCollection, NullLatLngBounds, NullCentroid, NullStats, <<>>)

ParcelLoadFinished == parcelLoad.state # "pending"

\* C16: after a load of the parcel layer finishes, whether it succeeds or fails
\* part-way, parcelCollection, parcelBreaks, parcelStats, parcelBounds and
\* parcelCentroid are all replaced together or all left unchanged.
C16_ParcelLoadAllOrNothing ==
    ParcelLoadFinished =>
        \/ parcelState = ParcelStateAtStart
        \/ /\ parcelLoad.state = "loaded"
           /\ parcelState = loadParcelValues(ParcelStateAtStart, parcelLoad.file)
           /\ ~parcelCollection.isNull
           /\ ~parcelBounds.isNull

\* What holds of C16: a load that runs to its end replaces the five together, and
\* a load whose fetch, parse or normalization throws leaves the five unchanged.
C16_WholeOrEarlyFailure ==
    /\ parcelLoad.state = "loaded" => ~parcelCollection.isNull /\ ~parcelBounds.isNull
    /\ (parcelLoad.state = "failed"
          /\ \A i \in 1..Len(parcelLoad.file.features) :
                 ~centroidThrows(parcelLoad.file.features[i].geometry))
           => parcelState = ParcelStateAtStart

\* The feature of the collection that file feature f became, if any.
Retained(f) ==
    {k \in 1..Len(parcelCollection.features) : parcelCollection.features[k].id = f.id}

\* C19: a feature whose geometry is absent or malformed has no bounding box and
\* no centroid, no point is located inside it, and it is retained in the loaded
\* collection, where the name search finds it.
C19_MalformedSkippedButRetained ==
    ParcelLoadFinished =>
        \A i \in 1..Len(parcelLoad.file.features) :
            LET f == parcelLoad.file.features[i]
            IN  (ParcelPool[f.pool].absent \/ ParcelPool[f.pool].malformed) =>
                    /\ Retained(f) # {}
                    /\ \A k \in Retained(f) :
                           /\ ~parcelCollection.features[k].bounds.ok
                           /\ parcelCollection.features[k].centroid.isNull
                           /\ \A p \in ParcelPoints :
                                  ~pointInPolygon(p, parcelCollection.features[k])
                    /\ (parcelQuery.kind = "name" /\ parcelQuery.asked # "pending"
                          /\ f.Name # <<>> /\ parcelQuery.text = f.Name)
                           => /\ parcelFound.found
                              /\ parcelCollection.features[parcelFound.index].displayName
                                     = f.Name

\* What holds of C19: in a load that runs to its end, a feature that has a
\* geometry without coordinates is retained without bounding box, no point is
\* located inside it, and the name search finds a parcel of its name.
C19_PresentGeometryRetained ==
    parcelLoad.state = "loaded" =>
        \A i \in 1..Len(parcelLoad.file.features) :
            LET f == parcelLoad.file.features[i]
            IN  ParcelPool[f.pool].malformed =>
                    /\ Retained(f) # {}
                    /\ \A k \in Retained(f) :
                           /\ ~parcelCollection.features[k].bounds.ok
                           /\ \A p \in ParcelPoints :
                                  ~pointInPolygon(p, parcelCollection.features[k])
                    /\ (parcelQuery.kind = "name" /\ parcelQuery.asked # "pending"
                          /\ f.Name # <<>> /\ parcelQuery.text = f.Name)
                           => /\ parcelFound.found
                              /\ parcelCollection.features[parcelFound.index].displayName
                                     = f.Name

(***************************************************************************)
(* The application from init on (app.js 2470-2486): the three loaders run  *)
(* at once, loadFloodZones fetching its five layers one after the other,   *)
(* each load ends in its try block or in its catch, and the map is clicked *)
(* and parcels are searched at any moment in between.  A loader gives up   *)
(* control only at its awaits (fetch and response.json), so what follows   *)
(* them is one step.                                                       *)
(***************************************************************************)
\* The features of each zone file, as indexes of ZonePool.
AppZoneFile == [VE |-> <<3>>, AE |-> <<1>>, AO |-> <<2>>, A |-> <<1>>, X |-> <<1, 3>>]

zoneFileFeatures(zoneId) ==
    [i \in 1..Len(AppZoneFile[zoneId]) |-> makeFeature(ZonePool[AppZoneFile[zoneId][i]])]

\* The shelters of the shelter file, as indexes of the shelter pool: two shelters
\* that are not the one designated for Water Island.
AppShelterFile == <<6, 9>>

\* The parcels of a parcel file, as indexes of ParcelPool: Cay alone, and with a
\* Polygon without ring.
AppParcelFiles == {<<7>>, <<7, 5>>}

\* In Cay and in every zone geometry, and outside of all.
AppPoints == {<<1, 1>>, <<6, 6>>}

AppSearchTexts == {CAY}

AppInit ==
    /\ EarlierStart
    /\ LaterStart

\* One turn of the loop of loadFloodZones whose fetch and parse succeed (app.js
\* 1464-1478).
InitLoadZone ==
    /\ zoneLoadPos <= Len(floodZonesConfig)
    /\ zoneFeatureMap' =
           [zoneFeatureMap EXCEPT ![floodZonesConfig[zoneLoadPos]] =
               zoneFileFeatures(floodZonesConfig[zoneLoadPos])]
    /\ zoneLoadPos' = zoneLoadPos + 1
    /\ UNCHANGED <<zoneClick, zoneResult, pipVars, shelterVars, rankVars, laterVars>>

\* One turn whose fetch, status, parse or normalization throws (app.js 1464-1469,
\* 1502-1504).
InitLoadZoneFails ==
    /\ zoneLoadPos <= Len(floodZonesConfig)
    /\ zoneLoadFailed' = zoneLoadFailed \cup {floodZonesConfig[zoneLoadPos]}
    /\ zoneLoadPos' = afterCatch(zoneLoadPos)
    /\ UNCHANGED <<zoneFeatureMap, zoneClick, zoneResult, initStatus, selection, asked,
                   pipVars, shelterVars, rankVars,
                   breakVars, insuranceVars, normalizeVars, parcelVars, languageVars,
                   metricVars, deckVars, scrollVars, markerVars>>

\* await Promise.all([...]) of init returns (app.js 2472): the three loaders have
\* returned, none rejecting, since each catches what it throws.
InitCompletes ==
    /\ initStatus = "running"
    /\ zoneLoadPos > Len(floodZonesConfig)
    /\ shelterLoad # "pending"
    /\ parcelLoad.state # "pending"
    /\ initStatus' = "done"
    /\ UNCHANGED <<zoneLoadFailed, selection, asked, notAppVars>>

\* What a handler leaves behind: its queries' results, and the panels it renders.
Handled(result) ==
    /\ selection' = result
    /\ asked' = Available(zoneLoadPos, zoneLoadFailed, shelterLoad, parcelLoad.state)
    /\ parcelFound' = result.parcel
    /\ IF result.selected
       THEN /\ zoneClick' = result.lonLat
            /\ zoneResult' = result.zone
            /\ shelterQuery' =
                   [point |-> result.lonLat,
                    legal |-> legalDescriptionOf(parcelCollection.features[result.parcel.index])]
            /\ shelterResult' = result.shelter
            /\ insuranceInput' = [zoneResult   |-> result.zone,
                                  parcelResult |-> parcelResultOf(result, parcelCollection)]
            /\ insuranceResult' =
                   renderInsuranceInfo(result.zone, parcelResultOf(result, parcelCollection))
            /\ currentSelection' = [isNull |-> FALSE, lonLat |-> result.lonLat,
                                     parcelFeature |-> result.parcel.index]
            /\ zoneCalls' = <<zoneCall(result.lonLat, zoneFeatureMap, currentLanguage)>>
       ELSE /\ UNCHANGED <<zoneClick, zoneResult, shelterQuery, shelterResult,
                           insuranceInput, insuranceResult>>
            /\ IF result.kind = "click" /\ ~result.threw       \* app.js 2409
               THEN currentSelection' = NoCurrentSelection /\ zoneCalls' = <<>>
               ELSE UNCHANGED <<currentSelection, zoneCalls>>
    /\ UNCHANGED <<zoneFeatureMap, zoneLoadPos, shelterFeatures, shelterLoad,
                   parcelCollection, parcelBounds, parcelCentroid, parcelLoad,
                   zoneLoadFailed, initStatus, currentLanguage,
                   pipVars, rankVars, breakVars, normalizeVars, metricVars,
                   deckVars, scrollVars>>
    /\ selectionMarker' = markerAfter(selectionMarker, result)

\* A click on the map (app.js 2397-2428).
HandleMapClick(p) ==
    /\ parcelQuery' = [kind |-> "point", point |-> p, text |-> <<>>,
                       asked |-> parcelLoad.state]
    /\ Handled(handleMapClick(p, parcelCollection, zoneFeatureMap, shelterFeatures))

\* A parcel search submitted (app.js 2308-2334).
SearchParcel(text) ==
    /\ parcelQuery' = [kind |-> "name", point |-> <<0, 0>>, text |-> text,
                       asked |-> parcelLoad.state]
    /\ Handled(searchParcel(text, parcelCollection, zoneFeatureMap, shelterFeatures))

AppNext ==
    \/ InitLoadZone
    \/ InitLoadZoneFails
    \/ LoadShelters(AppShelterFile)
    \/ LoadSheltersFails
    \/ \E c \in ParcelCrs : \E picks \in AppParcelFiles : LoadParcelValues(c, picks)
    \/ LoadParcelValuesFails
    \/ InitCompletes
    \/ \E p \in AppPoints : HandleMapClick(p)
    \/ \E text \in AppSearchTexts : SearchParcel(text)

SpecApp == AppInit /\ [][AppNext]_vars

\* The zone layers that are loaded.
ZonesLoaded == turnsOver(zoneLoadPos) \ zoneLoadFailed

\* The first of a set of layers in the order of zonePriority.
FirstOf(zones) ==
    zonePriority[CHOOSE k \in 1..Len(zonePriority) :
                     /\ zonePriority[k] \in zones
                     /\ \A j \in 1..(k - 1) : zonePriority[j] \notin zones]

\* C15: whichever layer loads fail, each failed layer is left empty and queries
\* against it report no match, every other layer holds the features of its file
\* and is found by queries, and init completes only when every load is over,
\* none of them having thrown into it.
C15_LoadFailuresIsolated ==
    /\ \A z \in turnsOver(zoneLoadPos) :
           layerFeatures(zoneFeatureMap, z)
               = IF z \in zoneLoadFailed THEN <<>> ELSE zoneFileFeatures(z)
    /\ \A p \in AppPoints :
           findFloodZone(p, zoneFeatureMap).found
               => findFloodZone(p, zoneFeatureMap).zoneId \in ZonesLoaded
    /\ ZonesLoaded # {} =>
           /\ findFloodZone(<<1, 1>>, zoneFeatureMap).found
           /\ findFloodZone(<<1, 1>>, zoneFeatureMap).zoneId = FirstOf(ZonesLoaded)
    /\ shelterLoad = "failed" =>
           /\ shelterFeatures = <<>>
           /\ \A p \in AppPoints : ~findNearestShelter(p, NoLegal, shelterFeatures).found
    /\ shelterLoad = "done" =>
           /\ shelterFeatures = [i \in 1..Len(AppShelterFile) |-> Shelter(AppShelterFile[i])]
           /\ findNearestShelter(<<1, 1>>, NoLegal, shelterFeatures).found
    /\ parcelLoad.state = "failed" =>
           /\ parcelCollection.isNull
           /\ \A p \in AppPoints : ~findParcelAtPoint(p, parcelCollection).found
           /\ \A text \in AppSearchTexts : ~handleParcelSearch(text, parcelCollection).found
    /\ parcelLoad.state = "loaded" =>
           /\ parcelCollection
                  = loadParcelValues(ParcelStateAtStart, parcelLoad.file).parcelCollection
           /\ findParcelAtPoint(<<1, 1>>, parcelCollection).found
           /\ handleParcelSearch(CAY, parcelCollection).found
    /\ initStatus = "done" =>
           /\ zoneLoadPos > Len(floodZonesConfig)
           /\ shelterLoad # "pending"
           /\ parcelLoad.state # "pending"

\* init has completed after two zone layers and the shelters failed to load.
C15_Witness ==
    /\ initStatus = "done"
    /\ zoneLoadFailed = {"VE", "AO"}
    /\ shelterLoad = "failed"
    /\ parcelLoad.state = "loaded"
    /\ findFloodZone(<<1, 1>>, zoneFeatureMap).zoneId = "AE"

\* C17: a click or a search handled while some layers are not loaded, or have
\* failed to load, ends without an exception; it finds no parcel unless the
\* parcels are loaded, no zone of a layer that is not loaded, and no shelter
\* unless the shelters are loaded, and it does find what the loaded layers hold.
C17_QueriesTolerateMissingLayers ==
    selection.kind # "none" =>
        /\ ~selection.threw
        /\ asked.parcels # "loaded" => ~selection.parcel.found /\ ~selection.selected
        /\ selection.selected =>
               /\ selection.zone.found => selection.zone.zoneId \in asked.zones
               /\ asked.zones = {} => selection.zone = NoZone
               /\ asked.shelters # "done" => selection.shelter = NoShelter
               /\ asked.shelters = "done" => selection.shelter.found
               /\ (asked.zones # {} /\ selection.lonLat = <<1, 1>>)
                      => selection.zone.zoneId = FirstOf(asked.zones)

\* A click was handled in a parcel while no zone layer and no shelter was loaded.
C17_Witness ==
    /\ selection.kind = "click"
    /\ selection.selected
    /\ asked.zones = {}
    /\ asked.shelters = "pending"
    /\ selection.zone = NoZone
    /\ selection.shelter = NoShelter

(***************************************************************************)
(* The language of the page is switched while the zone layers and the      *)
(* parcels load and the map is clicked: setLanguage renders the current    *)
(* selection again, which calls findFloodZone for the place selected.      *)
(***************************************************************************)
\* The values of the language select and of the tutorial's buttons, and a
\* language without table.
LanguagePool == {"en", "es", "zh", "fr"}

LanguageInit ==
    /\ EarlierStart
    /\ LaterStart

\* setLanguage(lang), app.js 835-853, with renderCurrentSelection (app.js
\* 816-833).
SetLanguage(lang) ==
    /\ currentLanguage' = languageOrEnglish(lang)
    /\ IF currentSelection.isNull
       THEN UNCHANGED <<zoneCalls, zoneClick, zoneResult, shelterQuery, shelterResult,
                        insuranceInput, insuranceResult>>
       ELSE LET lonLat == currentSelection.lonLat
                parcelFeature == parcelCollection.features[currentSelection.parcelFeature]
                parcelResult == [hasFeature |-> TRUE,
                                 totalValue |-> Num(parcelFeature.totalValue)]
            IN  /\ zoneCalls' = <<zoneCalls[1],
                                  zoneCall(lonLat, zoneFeatureMap, languageOrEnglish(lang))>>
                /\ zoneClick' = lonLat
                /\ zoneResult' = findFloodZone(lonLat, zoneFeatureMap)
                /\ shelterQuery' = [point |-> lonLat,
                                    legal |-> legalDescriptionOf(parcelFeature)]
                /\ shelterResult' = findNearestShelter(
                                        lonLat, legalDescriptionOf(parcelFeature),
                                        shelterFeatures)
                /\ insuranceInput' = [zoneResult   |-> findFloodZone(lonLat, zoneFeatureMap),
                                      parcelResult |-> parcelResult]
                /\ insuranceResult' =
                       renderInsuranceInfo(findFloodZone(lonLat, zoneFeatureMap), parcelResult)
    /\ UNCHANGED <<currentSelection, zoneFeatureMap, zoneLoadPos, shelterFeatures, shelterLoad,
                   pipVars, rankVars, breakVars, normalizeVars, parcelVars, appVars,
                   metricVars, deckVars, scrollVars, markerVars>>

\* The shelters are still being fetched, and so is init still running.
LanguageNext ==
    \/ InitLoadZone
    \/ InitLoadZoneFails
    \/ LoadParcelValues(1, <<7>>)
    \/ \E p \in AppPoints : HandleMapClick(p)
    \/ \E lang \in LanguagePool : SetLanguage(lang)

SpecLanguage == LanguageInit /\ [][LanguageNext]_vars

\* C20: two calls of findFloodZone with the same point against the same zone
\* layers return identical results, whatever the language selected at each.
C20_SameSnapshotSameResult ==
    (Len(zoneCalls) = 2
       /\ zoneCalls[1].point = zoneCalls[2].point
       /\ zoneCalls[1].snapshot = zoneCalls[2].snapshot)
        => zoneCalls[1].result = zoneCalls[2].result

\* What holds of C20: the two calls return the same zone and the same feature,
\* and the same description when the language is the same.
C20_SameSnapshotSameZone ==
    (Len(zoneCalls) = 2
       /\ zoneCalls[1].point = zoneCalls[2].point
       /\ zoneCalls[1].snapshot = zoneCalls[2].snapshot)
        => /\ zoneCalls[1].result.isNull = zoneCalls[2].result.isNull
           /\ ~zoneCalls[1].result.isNull =>
                  /\ zoneCalls[1].result.zoneId = zoneCalls[2].result.zoneId
                  /\ zoneCalls[1].result.feature = zoneCalls[2].result.feature
                  /\ zoneCalls[1].language = zoneCalls[2].language
                         => zoneCalls[1].result = zoneCalls[2].result

(***************************************************************************)
(* The metrics of the parcels, checked on their own: the parcels of a file *)
(* are mapped one after the other (app.js 1582-1625), each with any        *)
(* attributes.                                                             *)
(***************************************************************************)
\* A text that is no number ("n/a"), whole numbers, and 1e999 and -1e999.
AttributePool ==
    {AbsentAttribute,
     [kind |-> "text", text |-> NotANumber],
     [kind |-> "number", text |-> PlusInfinity],
     [kind |-> "number", text |-> MinusInfinity]}
        \cup {[kind |-> "number", text |-> Finite(v, 1)] : v \in {-2, 0, 2, 5}}

LandValues == {a \in AttributePool : a.text \in {NotANumber, PlusInfinity, Finite(5, 1)}}

ImprovedValues == {a \in AttributePool : a.kind = "number" /\ a.text \in {MinusInfinity, Finite(2, 1)}}

ShapeAreas ==
    {a \in AttributePool : a.kind # "text" /\ a.text \in {NotANumber, PlusInfinity, Finite(-2, 1), Finite(0, 1), Finite(2, 1)}}

MetricInit ==
    /\ EarlierStart
    /\ LaterStart

\* One turn of parcels.map for a parcel that has a geometry (app.js 1583-1624).
MapMetrics(properties) ==
    /\ Len(mappedProperties) < MaxMetricParcels
    /\ mappedProperties' = Append(mappedProperties, properties)
    /\ mappedMetrics' = Append(mappedMetrics, parcelMetrics(properties))
    /\ metricDistributions' = pushMetrics(metricDistributions, parcelMetrics(properties))
    /\ UNCHANGED notMetricVars

MetricNext ==
    \E land \in LandValues : \E improved \in ImprovedValues : \E area \in ShapeAreas :
        MapMetrics([Land_Value |-> land, Improved_V |-> improved, SHAPE_Area |-> area])

SpecMetrics == MetricInit /\ [][MetricNext]_vars

\* An attribute that is absent or no number.
Invalid(attribute) == attribute.kind \in {"absent", "text"}

\* The parcels whose attributes for a metric are all valid.
ValidFor(attributes) ==
    {i \in 1..Len(mappedProperties) :
        \A a \in attributes : ~Invalid(mappedProperties[i][a])}

\* C21: a parcel with an absent or non-numeric attribute contributes no entry to
\* the distribution of the metric derived from it, and the metric is not zero.
C21_InvalidIsUnavailable ==
    /\ Len(metricDistributions.totalValue)
           = Cardinality(ValidFor({"Land_Value", "Improved_V"}))
    /\ Len(metricDistributions.improvementValue) = Cardinality(ValidFor({"Improved_V"}))
    /\ Len(metricDistributions.valuePerAcre)
           = Cardinality(ValidFor({"Land_Value", "Improved_V", "SHAPE_Area"}))
    /\ \A i \in 1..Len(mappedProperties) :
           Invalid(mappedProperties[i].Land_Value) => mappedMetrics[i].landValue # Finite(0, 1)

\* What holds of C21: every parcel mapped contributes one entry to each
\* distribution, and an absent or non-numeric attribute counts as 0.
C21_InvalidIsZero ==
    /\ Len(metricDistributions.totalValue) = Len(mappedProperties)
    /\ Len(metricDistributions.improvementValue) = Len(mappedProperties)
    /\ Len(metricDistributions.valuePerAcre) = Len(mappedProperties)
    /\ \A i \in 1..Len(mappedProperties) :
           /\ Invalid(mappedProperties[i].Land_Value) => mappedMetrics[i].landValue = Finite(0, 1)
           /\ metricDistributions.totalValue[i] = mappedMetrics[i].totalValue

\* The five metrics of a parcel.
MetricNames == {"landValue", "improvementValue", "totalValue", "valuePerSqMeter", "valuePerAcre"}

AreaUnusable(attribute) ==
    Invalid(attribute) \/ (attribute.text.kind # "nan" /\ attribute.text.n <= 0)

\* C22: totalValue = landValue + improvementValue, the per-area metrics are 0
\* when the area is zero, negative or not numeric, and no metric is NaN or
\* infinite.
C22_MetricsNeverFault ==
    \A i \in 1..Len(mappedMetrics) :
        /\ mappedMetrics[i].totalValue
               = plus(mappedMetrics[i].landValue, mappedMetrics[i].improvementValue)
        /\ AreaUnusable(mappedProperties[i].SHAPE_Area) =>
               /\ mappedMetrics[i].valuePerSqMeter = Finite(0, 1)
               /\ mappedMetrics[i].valuePerAcre = Finite(0, 1)
        /\ \A m \in MetricNames : mappedMetrics[i][m].kind = "finite"

\* What holds of C22: the sum and the zero of an unusable area, and finite
\* metrics for a parcel none of whose attributes is infinite.
C22_MetricsOfFiniteAttributes ==
    \A i \in 1..Len(mappedMetrics) :
        /\ mappedMetrics[i].totalValue
               = plus(mappedMetrics[i].landValue, mappedMetrics[i].improvementValue)
        /\ AreaUnusable(mappedProperties[i].SHAPE_Area) =>
               /\ mappedMetrics[i].valuePerSqMeter = Finite(0, 1)
               /\ mappedMetrics[i].valuePerAcre = Finite(0, 1)
        /\ (\A a \in {"Land_Value", "Improved_V", "SHAPE_Area"} :
                mappedProperties[i][a].text.kind # "inf")
               => \A m \in MetricNames : mappedMetrics[i][m].kind = "finite"

(***************************************************************************)
(* The slide deck: calls of constructBinnedLayers and updateDataLayerByBin *)
(* on one SlideDeck, in any order.                                         *)
(***************************************************************************)
\* The most bins one call of constructBinnedLayers is given.
MaxBins == 3

\* The most calls of constructBinnedLayers on one deck.
MaxBuilds == 2

DeckInit == EarlierStart /\ LaterStart

ConstructBinnedLayers(binCount) ==
    /\ deckBuilds < MaxBuilds
    /\ deckBuilds' = deckBuilds + 1
    /\ slideDeck' = constructBinnedLayers(slideDeck, deckBuilds + 1, binCount)
    /\ deckCall' = [op |-> "construct", binIndex |-> binCount, before |-> slideDeck]
    /\ UNCHANGED notDeckVars

UpdateDataLayerByBin(binIndex) ==
    /\ slideDeck' = updateDataLayerByBin(slideDeck, binIndex)
    /\ deckCall' = [op |-> "update", binIndex |-> binIndex, before |-> slideDeck]
    /\ UNCHANGED <<deckBuilds, notDeckVars>>

DeckNext ==
    \/ \E binCount \in 0..MaxBins : ConstructBinnedLayers(binCount)
    \/ \E binIndex \in -1..MaxBins : UpdateDataLayerByBin(binIndex)

SpecDeck == DeckInit /\ [][DeckNext]_vars

\* The layers of bins 0..last of the deck's present binLayers.
binsUpTo(deck, last) ==
    {deck.binLayers[k + 1] : k \in 0..Min(last, Len(deck.binLayers) - 1)}

\* C23: on a deck with n >= 1 built bin layers, updateDataLayerByBin(i) with
\* i >= 0 leaves dataLayer on the map holding exactly the layers of bins
\* 0..min(i, n-1), with currentBin = min(i, n-1); a negative i empties
\* dataLayer, takes it off the map and sets currentBin to -1.
C23_UpdateShowsBinsUpTo ==
    (deckCall.op = "update" /\ Len(deckCall.before.binLayers) >= 1) =>
        LET n == Len(slideDeck.binLayers)
            i == deckCall.binIndex
        IN  IF i >= 0
            THEN /\ slideDeck.onMap
                 /\ slideDeck.dataLayer = binsUpTo(slideDeck, Min(i, n - 1))
                 /\ slideDeck.currentBin = Min(i, n - 1)
            ELSE /\ ~slideDeck.onMap
                 /\ slideDeck.dataLayer = {}
                 /\ slideDeck.currentBin = -1

\* The same for the calls on a deck whose dataLayer held, before the call,
\* the layers of bins 0..currentBin of its present binLayers.
C23_UpdateOfConsistentDeck ==
    (/\ deckCall.op = "update"
     /\ Len(deckCall.before.binLayers) >= 1
     /\ deckCall.before.dataLayer = binsUpTo(deckCall.before, deckCall.before.currentBin)
     /\ deckCall.before.onMap = (deckCall.before.currentBin >= 0)) =>
        LET n == Len(slideDeck.binLayers)
            i == deckCall.binIndex
        IN  IF i >= 0
            THEN /\ slideDeck.onMap
                 /\ slideDeck.dataLayer = binsUpTo(slideDeck, Min(i, n - 1))
                 /\ slideDeck.currentBin = Min(i, n - 1)
            ELSE /\ ~slideDeck.onMap
                 /\ slideDeck.dataLayer = {}
                 /\ slideDeck.currentBin = -1

\* C25: after any calls of constructBinnedLayers and updateDataLayerByBin,
\* dataLayer holds exactly the layers of bins 0..currentBin of the present
\* binLayers (none when currentBin is -1), so never a layer of an earlier
\* build.
C25_GroupIsPresentBuild ==
    /\ slideDeck.dataLayer = binsUpTo(slideDeck, slideDeck.currentBin)
    /\ \A layer \in slideDeck.dataLayer : layer.build = deckBuilds

\* The same between the first call of constructBinnedLayers and the second.
C25_GroupOfFirstBuild ==
    (deckBuilds <= 1) =>
        /\ slideDeck.dataLayer = binsUpTo(slideDeck, slideDeck.currentBin)
        /\ \A layer \in slideDeck.dataLayer : layer.build = deckBuilds

(***************************************************************************)
(* The scrolling page: the script of index.js up to init's fetch, the end  *)
(* of init, scroll events and the moveend events that run the handlers     *)
(* onScroll registered.                                                    *)
(***************************************************************************)
\* The bin slides the document may have: all of them, or one missing.
BinSlideCounts == {YearBinCount - 1, YearBinCount}

\* The files: the OBJECTIDs of their Point features.  One has one feature for
\* the first focus slide and two for the second, one has two for the fourth
\* and one for the fifth, one has none.
ScrollFiles == {<<59, 444, 444>>, <<264, 7, 264, 241>>, <<>>}

ScrollInit == EarlierStart /\ LaterStart

\* index.js 1-69 and init up to the fetch of line 97
LoadPage(count) ==
    /\ pageState = "start"
    /\ pageState' = "fetching"
    /\ binSlides' = count
    /\ UNCHANGED <<geojsonData, lastFocusId, focusEnabled, moveEndHandlers,
                   scrollEvent, lastFlight, followUp, deckVars, earlierVars,
                   breakVars, insuranceVars, normalizeVars, parcelVars, appVars,
                   languageVars, metricVars, markerVars>>

\* init rejects (index.js 97-99): console.error, and no listener
InitRejects ==
    /\ pageState = "fetching"
    /\ pageState' = "failed"
    /\ UNCHANGED <<binSlides, geojsonData, lastFocusId, focusEnabled,
                   moveEndHandlers, scrollEvent, lastFlight, followUp, deckVars,
                   earlierVars, breakVars, insuranceVars, normalizeVars,
                   parcelVars, appVars, languageVars, metricVars, markerVars>>

\* init after the file arrived (index.js 99-152)
InitResolves(gj) ==
    /\ pageState = "fetching"
    /\ pageState' = "ready"
    /\ geojsonData' = gj
    /\ LET built == constructBinnedLayers(slideDeck, deckBuilds + 1, YearBinCount)
       IN  /\ slideDeck' = updateDataLayerByBin(built, -1)
           /\ deckCall' = [op |-> "update", binIndex |-> -1, before |-> built]
    /\ deckBuilds' = deckBuilds + 1
    /\ UNCHANGED <<binSlides, lastFocusId, focusEnabled, moveEndHandlers,
                   scrollEvent, lastFlight, followUp, earlierVars, breakVars,
                   insuranceVars, normalizeVars, parcelVars, appVars,
                   languageVars, metricVars, markerVars>>

\* onScroll (index.js 105-147) when binIdx is the last bin slide above the
\* middle of the window and currentFocusId the last focus slide above it
OnScroll(binIdx, currentFocusId) ==
    /\ pageState = "ready"
    /\ binIdx < binSlides
    /\ LET enabled == binIdx >= YearBinCount - 1
           flight == focusFlight(enabled, geojsonData, currentFocusId, lastFocusId)
       IN  /\ slideDeck' = updateDataLayerByBin(slideDeck, Min(binIdx, YearBinCount - 1))
           /\ deckCall' = [op |-> "update", binIndex |-> Min(binIdx, YearBinCount - 1),
                           before |-> slideDeck]
           /\ focusEnabled' = enabled
           /\ lastFocusId' = IF flight # "none" THEN currentFocusId ELSE lastFocusId
           /\ moveEndHandlers' = IF flight = "flyToBounds"
                                 THEN moveEndHandlers \cup {currentFocusId}
                                 ELSE moveEndHandlers
           /\ scrollEvent' = [binIdx |-> binIdx, currentFocusId |-> currentFocusId,
                              flight |-> flight, previous |-> lastFlight]
           /\ lastFlight' = IF flight # "none" THEN currentFocusId ELSE lastFlight
    /\ followUp' = FALSE
    /\ UNCHANGED <<pageState, binSlides, geojsonData, deckBuilds, earlierVars,
                   breakVars, insuranceVars, normalizeVars, parcelVars, appVars,
                   languageVars, metricVars, markerVars>>

\* A moveend of the map runs the handlers of index.js 143-145, once each.
MoveEnd(zoomBelow19) ==
    /\ pageState = "ready"
    /\ moveEndHandlers # {}
    /\ moveEndHandlers' = {}
    /\ followUp' = zoomBelow19
    /\ UNCHANGED <<pageState, binSlides, geojsonData, lastFocusId, focusEnabled,
                   scrollEvent, lastFlight, deckVars, earlierVars, breakVars,
                   insuranceVars, normalizeVars, parcelVars, appVars,
                   languageVars, metricVars, markerVars>>

ScrollNext ==
    \/ \E count \in BinSlideCounts : LoadPage(count)
    \/ InitRejects
    \/ \E gj \in ScrollFiles : InitResolves(gj)
    \/ \E binIdx \in -1..(YearBinCount - 1),
          currentFocusId \in {NoFocusId} \cup {FOCUS_SLIDE_IDS[k] : k \in 1..Len(FOCUS_SLIDE_IDS)} :
            OnScroll(binIdx, currentFocusId)
    \/ \E zoomBelow19 \in BOOLEAN : MoveEnd(zoomBelow19)

SpecScroll == ScrollInit /\ [][ScrollNext]_vars

MarkerZonePool == ZonePool \o <<Polygon(<<>>)>>

\* The zone files, as indexes of the pool: a square, and a Polygon of no ring
\* before it.
MarkerZoneFiles == {<<1>>, <<Len(MarkerZonePool), 1>>}

MarkerInit == EarlierStart /\ LaterStart

\* One turn of the loop of loadFloodZones whose fetch and parse succeed (app.js
\* 1464-1478), for a file of the features picks.
MarkerLoadZone(picks) ==
    /\ zoneLoadPos <= Len(floodZonesConfig)
    /\ zoneFeatureMap' =
           [zoneFeatureMap EXCEPT ![floodZonesConfig[zoneLoadPos]] =
               [i \in 1..Len(picks) |-> makeFeature(MarkerZonePool[picks[i]])]]
    /\ zoneLoadPos' = zoneLoadPos + 1
    /\ UNCHANGED <<zoneClick, zoneResult, pipVars, shelterVars, rankVars, laterVars>>

MarkerNext ==
    \/ \E picks \in MarkerZoneFiles : MarkerLoadZone(picks)
    \/ InitLoadZoneFails
    \/ LoadParcelValues(1, <<7>>)
    \/ \E p \in AppPoints : HandleMapClick(p)
    \/ \E text \in AppSearchTexts : SearchParcel(text)

SpecMarker == MarkerInit /\ [][MarkerNext]_vars

\* C26: after any clicks and searches the selection marker is on the map if
\* and only if currentSelection is set.
C26_MarkerIffSelection ==
    selectionMarker.exists <=> ~currentSelection.isNull

\* What a handler that ran to its end leaves: a click outside every parcel
\* leaves no marker and no selection, a click in a parcel and a search that
\* selected leave both, at the same place.
C26_MarkerOfCompletedHandler ==
    (selection.kind # "none" /\ ~selection.threw) =>
        /\ (selection.kind = "click" /\ ~selection.selected) =>
               ~selectionMarker.exists /\ currentSelection.isNull
        /\ selection.selected =>
               /\ selectionMarker.exists
               /\ ~currentSelection.isNull
               /\ selectionMarker.lonLat = currentSelection.lonLat

(***************************************************************************)
(* The order of the zone turns, under SpecZone: the turns of loadFloodZones *)
(* (each loading or failing) with calls of findFloodZone in between.       *)
(***************************************************************************)
\* The place of a zone in zonePriority.
priorityOf(zoneId) == CHOOSE k \in 1..Len(zonePriority) : zonePriority[k] = zoneId

\* C27: the zone layers are fetched one after another in priority order, the
\* turn of every zone of higher priority being over when a layer is loaded;
\* and once findFloodZone returned a zone for a point, a call for the same
\* point returns the same zone and feature whatever was loaded since.
C27_ClassificationNeverReplaced ==
    /\ \A k \in 1..Len(zonePriority) :
           Len(layerFeatures(zoneFeatureMap, zonePriority[k])) > 0 =>
               \A j \in 1..k : zonePriority[j] \in turnsOver(zoneLoadPos)
    /\ zoneResult.found => findFloodZone(zoneClick, zoneFeatureMap) = zoneResult

\* A zone was returned for a point, and a layer of lower priority is loaded
\* that holds the point too.
C27_Witness ==
    /\ zoneResult.found
    /\ \E k \in (priorityOf(zoneResult.zoneId) + 1)..Len(zonePriority) :
           \E i \in 1..Len(layerFeatures(zoneFeatureMap, zonePriority[k])) :
               featureContains(zoneClick, layerFeatures(zoneFeatureMap, zonePriority[k])[i])

(***************************************************************************)
(* The percentiles of the parcels, under SpecParcel: the parcel load with  *)
(* clicks and searches before and after it.                                *)
(***************************************************************************)
\* C28: no query reads a parcel of dataStore.parcelCollection that has no
\* percentiles: every parcel of the collection has its three ranks in every
\* state a handler can run in, and so has the parcel a query found.
C28_PublishedWithPercentiles ==
    /\ \A i \in 1..Len(parcelCollection.features) :
           parcelCollection.features[i].percentiles.isSet
    /\ parcelFound.found =>
           /\ parcelCollection.features[parcelFound.index].percentiles.isSet
           /\ ~parcelCollection.features[parcelFound.index].percentiles.totalValue.isNull

\* A query found a parcel of a collection of two parcels, ranked differently.
C28_Witness ==
    /\ parcelFound.found
    /\ Len(parcelCollection.features) >= 2
    /\ \E i, j \in 1..Len(parcelCollection.features) :
           parcelCollection.features[i].percentiles.totalValue
               # parcelCollection.features[j].percentiles.totalValue

(***************************************************************************)
(* The order of the ranks, under SpecRank.                                 *)
(***************************************************************************)
\* The rank is a number from 0 to 1.
InUnit(r) == ~r.isNull /\ r.d > 0 /\ 0 <= r.n /\ r.n <= r.d

\* r <= s, for ranks that are numbers
RankLeq(r, s) == r.n * s.d <= s.n * r.d

\* The finite queries.
FiniteQueries == {q \in Queries : ~q.nan}

\* C29: for every ranker and all finite a <= b, 0 <= rank(a) <= rank(b) <= 1.
\* The call made is a, and b is every finite query at or above it.
C29_MonotoneWithinUnit ==
    (ranker.kind # "none" /\ ~rankQuery.nan) =>
        /\ InUnit(rankResult)
        /\ \A b \in FiniteQueries :
               rankQuery.v <= b.v =>
                   LET above == callRanker(ranker, b)
                   IN  InUnit(above) /\ RankLeq(rankResult, above)

\* The same for the rankers of a distribution that holds a finite value; the
\* ranker of a distribution that holds none returns null for every query.
C29_MonotoneOverFiniteValues ==
    (ranker.kind # "none" /\ ~rankQuery.nan) =>
        IF Count = 0
        THEN rankResult = NullRank
        ELSE /\ InUnit(rankResult)
             /\ \A b \in FiniteQueries :
                    rankQuery.v <= b.v =>
                        LET above == callRanker(ranker, b)
                        IN  InUnit(above) /\ RankLeq(rankResult, above)

\* A value stored twice, between the minimum and the maximum, was ranked, and
\* a query above it that is not stored ranks higher and below 1.
C29_Witness ==
    /\ ranker.kind # "none"
    /\ ~rankQuery.nan
    /\ Distinct >= 3
    /\ UpTo(rankQuery.v) - Below(rankQuery.v) = 2
    /\ Least < rankQuery.v
    /\ \E b \in FiniteQueries :
           /\ rankQuery.v < b.v
           /\ ~Stored(b.v)
           /\ ~RankLeq(callRanker(ranker, b), rankResult)
           /\ ~RankLeq(Rank(1, 1), callRanker(ranker, b))

(***************************************************************************)
(* The parcel found by name, under SpecParcel.  The names are said again   *)
(* here, from the collection and the text of the search.                   *)
(***************************************************************************)
\* The text asked for and the names of the parcels, trimmed, in lower case.
AskedName == toLowerCase(trim(parcelQuery.text))

LowerName(i) == toLowerCase(trim(parcelCollection.features[i].displayName))

NameLength(i) == Len(trim(parcelCollection.features[i].displayName))

\* The parcels whose name holds the text.
Holding == {i \in 1..Len(parcelCollection.features) : includes(LowerName(i), AskedName)}

ExactName(i) == LowerName(i) = AskedName

StartsWithAsked(i) ==
    /\ Len(AskedName) <= Len(LowerName(i))
    /\ SubSeq(LowerName(i), 1, Len(AskedName)) = AskedName

\* Where the text first is in the name of a parcel that holds it, from 1.
MatchAt(i) ==
    CHOOSE k \in 1..Len(LowerName(i)) :
        /\ SubSeq(LowerName(i), k, k + Len(AskedName) - 1) = AskedName
        /\ \A m \in 1..(k - 1) : SubSeq(LowerName(i), m, m + Len(AskedName) - 1) # AskedName

\* Both names are the text, or both start with it and are longer, or both hold
\* it first at the same place further in.
EquallyGood(i, j) ==
    \/ ExactName(i) /\ ExactName(j)
    \/ /\ ~ExactName(i) /\ ~ExactName(j)
       /\ MatchAt(i) = MatchAt(j)

\* C30: findParcelByName returns none when the query is blank, no collection
\* is loaded or no name holds the query; otherwise a parcel whose name holds
\* it: one of that name if there is one, else one whose name starts with it if
\* there is one, else one where it comes first; and of equally good parcels
\* the one of the shortest name, the first of these in the collection.
C30_BestNameMatch ==
    parcelQuery.kind = "name" =>
        IF parcelQuery.asked # "loaded" \/ AskedName = <<>> \/ Holding = {}
        THEN ~parcelFound.found
        ELSE /\ parcelFound.found
             /\ parcelFound.index \in Holding
             /\ LET r == parcelFound.index
                IN  \A j \in Holding :
                        /\ ExactName(j) => ExactName(r)
                        /\ StartsWithAsked(j) => StartsWithAsked(r)
                        /\ MatchAt(r) <= MatchAt(j)
                        /\ EquallyGood(r, j) =>
                               /\ NameLength(r) <= NameLength(j)
                               /\ NameLength(r) = NameLength(j) => r <= j

\* The parcel found is not the one of the shortest name: its name starts with
\* the text, and a shorter name holds the text further in.
C30_Witness ==
    /\ parcelQuery.kind = "name"
    /\ parcelFound.found
    /\ StartsWithAsked(parcelFound.index)
    /\ ~ExactName(parcelFound.index)
    /\ \E j \in Holding :
           /\ NameLength(j) < NameLength(parcelFound.index)
           /\ MatchAt(j) > 1

====
